---- MODULE Spec2Model ----
(***************************************************************************)
(* Verification model of the 2D collision core of planar:                  *)
(*   - SpatialHash  (demos/collision/src/structures/SpatialHash.js)        *)
(*   - Quadtree     (demos/collision/src/structures/Quadtree.js)           *)
(*   - Collision    (demos/collision/src/algorithms/Collision.js)          *)
(* Each component has its own specification (SpecHash, SpecQuad, ...).     *)
(* A specification leaves the variables of the other components at their   *)
(* idle values.                                                            *)
(***************************************************************************)
EXTENDS Integers, Sequences, FiniteSets, TLC

VARIABLES
    colA,         \* the first shape handed to a test
    colB,         \* the second shape
    colResponse,  \* the caller's Response object
    colMoved,     \* "plus" or "minus" when colA was moved by response.overlapV, or "none"
    colLast,      \* the last call: [a, b, before, moved, outcome], or Idle
    colCalls,     \* number of calls made
    satA,         \* the first polygon handed to testPolygonPolygon
    satB,         \* the second polygon
    satResponse,  \* the caller's Response object
    satFresh,     \* response is as new Response() or clear() left it
    satMoved,     \* satA was moved by -response.overlapV since the last test
    satLast,      \* the last test: [a, b, before, after, result, fresh, moved], or Idle
    satPrev,      \* the test before the last one, or Idle
    satTests,     \* number of tests made
    qtRoot,       \* the root Quadtree node
    qtLog,        \* history: the <<key, region>> pairs added since the last clear()
    qtFound,      \* the last find(): [region |-> Q, keys |-> result], or Idle
    shField,      \* SpatialHash.field
    shDivisions,  \* SpatialHash.divisions
    shObjects,    \* SpatialHash.objects: bucket <<x, y>> -> sequence of keys
    shKeys,       \* SpatialHash.keys
    shCount,      \* SpatialHash.count
    shLog,        \* history: the <<key, region>> pairs added since the last clear()
    shRegions,    \* history: the regions added since the last clear(), in the order of shKeys
    shFound,      \* the last find(): [region |-> Q, keys |-> result], or Idle
    polyP,        \* the polygon the Polygon utilities are applied to
    polyLast,     \* the last Polygon call: [op, status, error, before], or Idle
    polyCalls,    \* number of Polygon calls made
    ixLast,       \* the last call on the two partitions: [op, cleared, key, region, status, before], or Idle
    hitPool,      \* pools.testPoint and pools.response of Collision.hit
    hitLast,      \* the last hit(): [point, shape, pool, outcome], or Idle
    swLast        \* the last call on Collision.AABB: its arguments and what it returned, or Idle

shVars == <<shField, shDivisions, shObjects, shKeys, shCount, shLog, shRegions, shFound>>

qtVars == <<qtRoot, qtLog, qtFound>>

satVars == <<satA, satB, satResponse, satFresh, satMoved, satLast, satPrev, satTests>>

colVars == <<colA, colB, colResponse, colMoved, colLast, colCalls>>

polyVars == <<polyP, polyLast, polyCalls>>

hitVars == <<hitPool, hitLast>>

extVars == <<polyVars, ixLast, hitVars, swLast>>

vars == <<shVars, qtVars, satVars, colVars, extVars>>

Idle == [idle |-> TRUE]

\* the components a specification does not exercise
HashIdle ==
    /\ shField = Idle /\ shDivisions = 0 /\ shObjects = <<>> /\ shKeys = <<>>
    /\ shCount = 0 /\ shLog = {} /\ shRegions = <<>> /\ shFound = Idle
QuadIdle == qtRoot = Idle /\ qtLog = {} /\ qtFound = Idle
SatIdle ==
    /\ satA = Idle /\ satB = Idle /\ satResponse = Idle /\ satFresh = TRUE
    /\ satMoved = FALSE /\ satLast = Idle /\ satPrev = Idle /\ satTests = 0
ColIdle ==
    /\ colA = Idle /\ colB = Idle /\ colResponse = Idle /\ colMoved = "none"
    /\ colLast = Idle /\ colCalls = 0
PolyIdle == polyP = Idle /\ polyLast = Idle /\ polyCalls = 0
PartIdle == ixLast = Idle
HitIdle == hitPool = Idle /\ hitLast = Idle
SweepIdle == swLast = Idle
ExtIdle == PolyIdle /\ PartIdle /\ HitIdle /\ SweepIdle

(***************************************************************************)
(* Small helpers for JavaScript numbers on integers.                       *)
(***************************************************************************)
Max2(a, b) == IF a > b THEN a ELSE b
Min2(a, b) == IF a < b THEN a ELSE b

RECURSIVE Pow2(_)
Pow2(n) == IF n <= 0 THEN 1 ELSE 2 * Pow2(n - 1)

\* Math.ceil( Math.log( m ) / Math.log( 2 ) ) for an integer m >= 1
RECURSIVE CeilLog2(_)
CeilLog2(m) == IF m <= 1 THEN 0 ELSE 1 + CeilLog2((m + 1) \div 2)

\* x >> s on integers (arithmetic shift: rounds towards minus infinity), s >= 0
Shr(x, s) == x \div Pow2(s)

Region(x, y, w, h) == [x |-> x, y |-> y, width |-> w, height |-> h]

\* Two closed axis-aligned regions share at least one point.
Overlaps(a, b) ==
    /\ a.x <= b.x + b.width
    /\ b.x <= a.x + a.width
    /\ a.y <= b.y + b.height
    /\ b.y <= a.y + a.height

\* Region r lies inside the field f.
Inside(f, r) ==
    /\ f.x <= r.x
    /\ r.x + r.width <= f.x + f.width
    /\ f.y <= r.y
    /\ r.y + r.height <= f.y + f.height

(***************************************************************************)
(* Numbers of Collision.js.  The code computes with floating point; the    *)
(* model computes the same expressions exactly.  A number is a record      *)
(* [a, b, n, c] standing for (a + b * sqrt(n)) / c with c > 0 and n        *)
(* square-free, which is closed under everything the tests compute from    *)
(* integer inputs (Math.sqrt is only taken of rationals).  c = 0 stands    *)
(* for Number.MAX_VALUE (a = 1) or -Number.MAX_VALUE (a = -1).             *)
(***************************************************************************)
Sgn(k) == IF k > 0 THEN 1 ELSE IF k < 0 THEN -1 ELSE 0
AbsInt(k) == IF k < 0 THEN -k ELSE k

RECURSIVE Gcd(_, _)
Gcd(x, y) == IF y = 0 THEN x ELSE Gcd(y, x % y)

\* the largest s >= from... with s * s <= k
RECURSIVE SqrtFrom(_, _)
SqrtFrom(k, s) == IF (s + 1) * (s + 1) > k THEN s ELSE SqrtFrom(k, s + 1)
ISqrt(k) == SqrtFrom(k, 0)

\* the largest s with s * s dividing k (k >= 1)
RECURSIVE SquarePartFrom(_, _)
SquarePartFrom(k, s) ==
    IF s <= 1 THEN 1 ELSE IF k % (s * s) = 0 THEN s ELSE SquarePartFrom(k, s - 1)
SquarePart(k) == SquarePartFrom(k, ISqrt(k))

\* no such number: TLC stops when the model would need one
Undefined == CHOOSE v \in {} : TRUE

\* (a + b * sqrt(n)) / c in canonical form, c > 0, n >= 0
NumOver(a1, b1, n0, c, g) ==
    [a |-> a1 \div g, b |-> b1 \div g, n |-> n0, c |-> c \div g]
NumReduced(a1, b1, n0, c) ==
    NumOver(a1, b1, n0, c, Gcd(Gcd(AbsInt(a1), AbsInt(b1)), c))
NumRadical(a, b0, n0, c) ==
    IF n0 = 1 THEN NumReduced(a + b0, 0, 1, c) ELSE NumReduced(a, b0, n0, c)
NumSquareFree(a, b, n, c, s) ==
    NumRadical(a, IF n = 0 THEN 0 ELSE b * s,
               IF b = 0 \/ n = 0 THEN 1 ELSE n \div (s * s), c)
Num(a, b, n, c) ==
    NumSquareFree(a, b, n, c, IF b = 0 \/ n = 0 THEN 1 ELSE SquarePart(n))

I(k) == [a |-> k, b |-> 0, n |-> 1, c |-> 1]
MAX_VALUE == [a |-> 1, b |-> 0, n |-> 1, c |-> 0]

\* the field both numbers live in; Undefined when they have different radicals
CommonN(x, y) ==
    IF x.b = 0 THEN y.n ELSE IF y.b = 0 \/ y.n = x.n THEN x.n ELSE Undefined

NAdd(x, y) ==
    Num(x.a * y.c + y.a * x.c, x.b * y.c + y.b * x.c, CommonN(x, y), x.c * y.c)
NNeg(x) == [x EXCEPT !.a = -x.a, !.b = -x.b]
NSub(x, y) == NAdd(x, NNeg(y))
NMul(x, y) ==
    Num(x.a * y.a + x.b * y.b * CommonN(x, y), x.a * y.b + x.b * y.a,
        CommonN(x, y), x.c * y.c)

\* sign of A + B * sqrt(n)
Sign1(A, B, n) ==
    IF B = 0 \/ n = 0 THEN Sgn(A)
    ELSE IF A = 0 THEN Sgn(B)
    ELSE IF Sgn(A) = Sgn(B) THEN Sgn(A)
    ELSE IF A * A > B * B * n THEN Sgn(A)
    ELSE IF A * A < B * B * n THEN Sgn(B)
    ELSE 0

\* sign of P + Q * sqrt(n) + R * sqrt(m)
Sign2Larger(s, t, g) == IF g > 0 THEN s ELSE IF g < 0 THEN t ELSE 0
Sign2Both(P, Q, n, R, m, s, t) ==
    IF t = 0 THEN s
    ELSE IF s = 0 \/ s = t THEN t
    ELSE Sign2Larger(s, t, Sign1(P * P + Q * Q * n - R * R * m, 2 * P * Q, n))
Sign2(P, Q, n, R, m) == Sign2Both(P, Q, n, R, m, Sign1(P, Q, n), Sign1(0, R, m))

NSign(x) == IF x.c = 0 THEN Sgn(x.a) ELSE Sign1(x.a, x.b, x.n)

\* -1, 0 or 1 as x < y, x = y or x > y
NCmp(x, y) ==
    IF x.c = 0 \/ y.c = 0
    THEN Sgn((IF x.c = 0 THEN x.a ELSE 0) - (IF y.c = 0 THEN y.a ELSE 0))
    ELSE Sign2(x.a * y.c - y.a * x.c, x.b * y.c, x.n, -(y.b * x.c), y.n)

NLt(x, y) == NCmp(x, y) < 0
NLe(x, y) == NCmp(x, y) <= 0
NGt(x, y) == NCmp(x, y) > 0
NGe(x, y) == NCmp(x, y) >= 0
NEq(x, y) == NCmp(x, y) = 0

\* Math.abs
NAbs(x) == IF NSign(x) < 0 THEN NNeg(x) ELSE x

\* 1 / x, x # 0
NInvOver(x, d) == Num(Sgn(d) * x.c * x.a, -(Sgn(d) * x.c * x.b), x.n, AbsInt(d))
NInv(x) == NInvOver(x, x.a * x.a - x.b * x.b * x.n)

NDiv(x, y) == NMul(x, NInv(y))

\* Math.sqrt of a rational x >= 0
NSqrt(x) == IF x.b # 0 THEN Undefined ELSE Num(0, 1, x.a * x.c, x.c)

(***************************************************************************)
(* Vector                                                                  *)
(***************************************************************************)
Vec(x, y) == [x |-> x, y |-> y]
IVec(x, y) == [x |-> I(x), y |-> I(y)]

\* Vector.perp
perp(vec) == Vec(vec.y, NNeg(vec.x))
\* Vector.reverse
reverse(vec) == Vec(NNeg(vec.x), NNeg(vec.y))
\* Vector.add, Vector.sub, Vector.scale: the value left in dst
add(dst, src) == Vec(NAdd(dst.x, src.x), NAdd(dst.y, src.y))
sub(dst, src) == Vec(NSub(dst.x, src.x), NSub(dst.y, src.y))
scale(vec, k) == Vec(NMul(vec.x, k), NMul(vec.y, k))
\* Vector.dot, Vector.len2, Vector.len
dot(u, v) == NAdd(NMul(u.x, v.x), NMul(u.y, v.y))
len2(vec) == dot(vec, vec)
len(vec) == NSqrt(len2(vec))
\* Vector.normalize
normalizeBy(vec, d) ==
    IF NSign(d) > 0 THEN Vec(NDiv(vec.x, d), NDiv(vec.y, d)) ELSE vec
normalize(vec) == normalizeBy(vec, len(vec))

(***************************************************************************)
(* Polygon, Box, Response                                                  *)
(***************************************************************************)
Null == [null |-> TRUE]

\* an angle in radians, held by its cosine and sine: Math.cos( angle ) and
\* Math.sin( angle ) are taken as the exact values
Angle(cos, sin) == [cos |-> cos, sin |-> sin]
ZeroAngle == Angle(I(1), I(0))

\* Vector.rotate( vec, angle ): the value left in vec
rotate(vec, angle) ==
    Vec(NSub(NMul(vec.x, angle.cos), NMul(vec.y, angle.sin)),
        NAdd(NMul(vec.x, angle.sin), NMul(vec.y, angle.cos)))

\* recalcPolygon( polygon ): calcPoints, edges and normals from points,
\* offset and angle
recalcPoint(point, offset, angle) ==
    IF angle # ZeroAngle THEN rotate(add(point, offset), angle) ELSE add(point, offset)
recalcNormals(polygon, calcPoints, edges) ==
    [polygon EXCEPT !.calcPoints = calcPoints, !.edges = edges,
                    !.normals = [i \in 1..Len(edges) |-> normalize(perp(edges[i]))]]
recalcEdges(polygon, calcPoints) ==
    recalcNormals(polygon, calcPoints,
                  [i \in 1..Len(calcPoints) |->
                      sub(calcPoints[IF i < Len(calcPoints) THEN i + 1 ELSE 1],
                          calcPoints[i])])
recalcPolygon(polygon) ==
    recalcEdges(polygon,
                [i \in 1..Len(polygon.points) |->
                    recalcPoint(polygon.points[i], polygon.offset, polygon.angle)])

\* Polygon.setPoints( polygon, points )
setPoints(polygon, points) == recalcPolygon([polygon EXCEPT !.points = points])

\* Polygon.create( position, points )
PolygonCreate(position, points) ==
    setPoints([ position |-> position, angle |-> ZeroAngle, offset |-> IVec(0, 0),
                points |-> <<>>, calcPoints |-> <<>>, edges |-> <<>>, normals |-> <<>> ],
              points)

\* a CollisionBox: { position, width, height }
Box(position, width, height) ==
    [position |-> position, width |-> width, height |-> height]

\* Box.toPolygon( box )
toPolygon(box) ==
    PolygonCreate(Vec(box.position.x, box.position.y),
                  << Vec(I(0), I(0)), Vec(box.width, I(0)),
                     Vec(box.width, box.height), Vec(I(0), box.height) >>)

\* new Response()
NewResponse ==
    [ a |-> Null, b |-> Null, overlap |-> MAX_VALUE, overlapN |-> IVec(0, 0),
      overlapV |-> IVec(0, 0), aInB |-> TRUE, bInA |-> TRUE ]

\* Response.clear()
clear(r) == [r EXCEPT !.overlap = MAX_VALUE, !.aInB = TRUE, !.bInA = TRUE]

\* flattenPointsOn( points, normal, result ): the loop from point i on, with
\* the running minimum and maximum
RECURSIVE flattenFrom(_, _, _, _, _)
flattenWiden(points, normal, i, min, max, d) ==
    flattenFrom(points, normal, i + 1,
                IF NLt(d, min) THEN d ELSE min, IF NGt(d, max) THEN d ELSE max)
flattenFrom(points, normal, i, min, max) ==
    IF i > Len(points) THEN <<min, max>>
    ELSE flattenWiden(points, normal, i, min, max, dot(points[i], normal))

flattenPointsOn(points, normal) ==
    flattenFrom(points, normal, 1, MAX_VALUE, NNeg(MAX_VALUE))

\* the overlap computed by isSeparatingAxis for two ranges that are not apart,
\* with the containment flags it clears
axisOverlapWith(rangeA, rangeB, response, shortest) ==
    IF NLt(rangeA[1], rangeB[1])
    THEN IF NLt(rangeA[2], rangeB[2])
         THEN [ overlap |-> NSub(rangeA[2], rangeB[1]), aInB |-> FALSE, bInA |-> FALSE ]
         ELSE [ overlap |-> shortest, aInB |-> FALSE, bInA |-> response.bInA ]
    ELSE IF NGt(rangeA[2], rangeB[2])
         THEN [ overlap |-> NSub(rangeA[1], rangeB[2]), aInB |-> FALSE, bInA |-> FALSE ]
         ELSE [ overlap |-> shortest, aInB |-> response.aInB, bInA |-> FALSE ]

\* a variant that keeps the shorter way out but drops its direction
shortestWayUnsigned(option1, option2) == IF NLt(option1, option2) THEN option1 ELSE option2

\* the shortest way out when one range is inside the other
shortestWay(option1, option2) == IF NLt(option1, option2) THEN option1 ELSE NNeg(option2)

axisOverlap(rangeA, rangeB, response) ==
    axisOverlapWith(rangeA, rangeB, response,
                    shortestWay(NSub(rangeA[2], rangeB[1]), NSub(rangeB[2], rangeA[1])))

\* isSeparatingAxis( aPos, bPos, aPoints, bPoints, axis, response ):
\* [separating |-> the value returned, response |-> the response afterwards];
\* withResponse is FALSE when the caller passed no response
axisSmallest(axis, response, overlap, absOverlap, flagged) ==
    IF NLt(absOverlap, response.overlap)
    THEN [ separating |-> FALSE,
           response |-> [flagged EXCEPT
               !.overlap = absOverlap,
               !.overlapN = IF NSign(overlap) < 0 THEN reverse(axis) ELSE axis] ]
    ELSE [separating |-> FALSE, response |-> flagged]
axisResponse(axis, response, o) ==
    axisSmallest(axis, response, o.overlap, NAbs(o.overlap),
                 [response EXCEPT !.aInB = o.aInB, !.bInA = o.bInA])
axisGap(axis, response, withResponse, rangeA, rangeB) ==
    IF NGt(rangeA[1], rangeB[2]) \/ NGt(rangeB[1], rangeA[2])
    THEN [separating |-> TRUE, response |-> response]
    ELSE IF ~withResponse
    THEN [separating |-> FALSE, response |-> response]
    ELSE axisResponse(axis, response, axisOverlap(rangeA, rangeB, response))
moveRange(rangeB, projectedOffset) ==
    << NAdd(rangeB[1], projectedOffset), NAdd(rangeB[2], projectedOffset) >>
isSeparatingAxis(aPos, bPos, aPoints, bPoints, axis, response, withResponse) ==
    axisGap(axis, response, withResponse, flattenPointsOn(aPoints, axis),
            moveRange(flattenPointsOn(bPoints, axis), dot(sub(bPos, aPos), axis)))

\* the two loops of testPolygonPolygon over a sequence of axes, from axis i on
RECURSIVE axesLoop(_, _, _, _, _, _)
axesContinue(a, b, axes, i, withResponse, r) ==
    IF r.separating THEN r
    ELSE axesLoop(a, b, axes, i + 1, r.response, withResponse)
axesLoop(a, b, axes, i, response, withResponse) ==
    IF i > Len(axes) THEN [separating |-> FALSE, response |-> response]
    ELSE axesContinue(a, b, axes, i, withResponse,
                      isSeparatingAxis(a.position, b.position, a.calcPoints, b.calcPoints,
                                       axes[i], response, withResponse))

\* a variant that tries the edge normals of the first polygon only
\* the end of testPolygonPolygon, r being what the loops left
polygonsFinal(a, b, r) ==
    [r EXCEPT !.a = a, !.b = b, !.overlapV = scale(r.overlapN, r.overlap)]
polygonsResult(a, b, response, withResponse, r) ==
    IF r.separating THEN [result |-> FALSE, response |-> r.response]
    ELSE IF ~withResponse THEN [result |-> TRUE, response |-> response]
    ELSE [result |-> TRUE, response |-> polygonsFinal(a, b, r.response)]

\* a variant that tries the edge normals of the first polygon only
testPolygonPolygonOwnNormals(a, b, response, withResponse) ==
    polygonsResult(a, b, response, withResponse,
                   axesLoop(a, b, a.normals, 1, response, withResponse))

\* testPolygonPolygon( a, b, response ):
\* [result |-> the value returned, response |-> the response afterwards]
testPolygonPolygon(a, b, response, withResponse) ==
    polygonsResult(a, b, response, withResponse,
                   axesLoop(a, b, a.normals \o b.normals, 1, response, withResponse))

(***************************************************************************)
(* SpatialHash                                                             *)
(***************************************************************************)
MaxField == 4      \* field width ranges over 1..MaxField
MaxAdds == 2       \* add() calls between two clear() calls

Keys == {1, 2}

\* The regions handed to add() and find() of the hash.
HashRegions ==
    { Region(x, 0, w, 0) : x \in 0..3, w \in {0, 1} } \cup
    { Region(-1, 0, 0, 0), Region(0, 1, 0, 0), Region(3, 1, 0, 1) }

\* constructor: max, nearest, shift and the bound given to getHashes
HashMaxDim(f) == Max2(f.width, f.height)
HashNearest(f) == Pow2(CeilLog2(HashMaxDim(f)))
\* Math.log2( nearest / divisions ), divisions a power of two <= nearest
HashShift(f, d) == CeilLog2(HashNearest(f) \div d)
HashBound(f, d) == Shr(HashMaxDim(f), HashShift(f, d)) - 1

\* the rows of getHashes' loop: x from sx to ex for one y
RECURSIVE HashRow(_, _, _)
HashRow(x, ex, y) ==
    IF x > ex THEN <<>> ELSE <<(<<x, y>>)>> \o HashRow(x + 1, ex, y)

RECURSIVE HashRows(_, _, _, _)
HashRows(y, ey, sx, ex) ==
    IF y > ey THEN <<>> ELSE HashRow(sx, ex, y) \o HashRows(y + 1, ey, sx, ex)

\* getHashes( offsetX, offsetY, max, size, region )
getHashes(offsetX, offsetY, max, size, region) ==
    LET x == region.x - offsetX
        y == region.y - offsetY
        sx == Max2(Shr(x, size), 0)
        sy == Max2(Shr(y, size), 0)
        ex == Min2(Shr(x + region.width, size), max)
        ey == Min2(Shr(y + region.height, size), max)
    IN  HashRows(sy, ey, sx, ex)

\* this.getHashes: getHashes bound to the field and the constructor's values
shGetHashes(region) ==
    getHashes(shField.x, shField.y, HashBound(shField, shDivisions),
              HashShift(shField, shDivisions), region)

RangeOf(s) == { s[i] : i \in 1..Len(s) }

\* objects[hash].push( key ) for every hash of the sequence
RECURSIVE PushAll(_, _, _)
PushAll(objects, hashes, key) ==
    IF hashes = <<>> THEN objects
    ELSE PushAll([objects EXCEPT ![Head(hashes)] = Append(@, key)], Tail(hashes), key)

\* find's loop: the keys of every bucket of the sequence, in order
RECURSIVE Collect(_, _)
Collect(objects, hashes) ==
    IF hashes = <<>> THEN <<>>
    ELSE (IF Head(hashes) \in DOMAIN objects THEN objects[Head(hashes)] ELSE <<>>)
         \o Collect(objects, Tail(hashes))

\* SpatialHash.find( region ) on the current state
shFind(region) == Collect(shObjects, shGetHashes(region))

Buckets(d) == (0..(d - 1)) \X (0..(d - 1))

\* The fields: any width up to MaxField, square or one unit high.
HashFields ==
    { Region(0, 0, w, h) : w \in 1..MaxField, h \in 1..MaxField } \cap
    { f \in [x : {0}, y : {0}, width : 1..MaxField, height : 1..MaxField] :
        f.height \in {1, f.width} }

\* constructor( field, { divisions } ): divisions a power of two, at most nearest
HashInit ==
    /\ shField \in HashFields
    /\ shDivisions \in { d \in {1, 2, 4, 8} : d <= HashNearest(shField) }
    /\ shObjects = [b \in Buckets(shDivisions) |-> <<>>]
    /\ shKeys = <<>>
    /\ shCount = 0
    /\ shLog = {}
    /\ shRegions = <<>>
    /\ shFound = Idle
    /\ QuadIdle /\ SatIdle /\ ColIdle /\ ExtIdle

\* add( key, region )
HashAdd ==
    \E key \in Keys, region \in HashRegions :
        /\ shCount < MaxAdds
        /\ RangeOf(shGetHashes(region)) \subseteq DOMAIN shObjects
        /\ shKeys' = Append(shKeys, key)
        /\ shCount' = shCount + 1
        /\ shObjects' = PushAll(shObjects, shGetHashes(region), key)
        /\ shLog' = shLog \cup {<<key, region>>}
        /\ shRegions' = Append(shRegions, region)
        /\ shFound' = Idle
        /\ UNCHANGED <<shField, shDivisions, qtVars, satVars, colVars, extVars>>

\* a variant of clear()'s loop that leaves the first bucket as it is
ClearedObjectsButFirst(objects) ==
    [b \in DOMAIN objects |-> IF b = <<0, 0>> THEN objects[b] ELSE <<>>]

\* clear()'s loop: every bucket of objects becomes []
ClearedObjects(objects) == [b \in DOMAIN objects |-> <<>>]

\* clear()
HashClear ==
    /\ shCount > 0
    /\ shObjects' = ClearedObjects(shObjects)
    /\ shKeys' = <<>>
    /\ shCount' = 0
    /\ shLog' = {}
    /\ shRegions' = <<>>
    /\ shFound' = Idle
    /\ UNCHANGED <<shField, shDivisions, qtVars, satVars, colVars, extVars>>

\* find( region ), the result kept in shFound
HashFind ==
    \E region \in HashRegions :
        /\ shFound' = [region |-> region, keys |-> shFind(region)]
        /\ UNCHANGED <<shField, shDivisions, shObjects, shKeys, shCount, shLog, shRegions, qtVars, satVars, colVars, extVars>>

HashNext == HashAdd \/ HashClear \/ HashFind

SpecHash == HashInit /\ [][HashNext]_vars

\* Region r lies in the field f and ends short of the field's far edges.
WellInside(f, r) ==
    /\ f.x <= r.x
    /\ r.x + r.width < f.x + f.width
    /\ f.y <= r.y
    /\ r.y + r.height < f.y + f.height

(* C1: SpatialHash has no false negatives: whatever the field and the      *)
(* power-of-two divisions, after any adds since the last clear(), find(Q)  *)
(* returns key k for every added (k, R) with R inside the field and R, Q   *)
(* overlapping.  Stated for the regions that end short of the field's far  *)
(* edges, which the claim covers.                                          *)
HashNoFalseNegatives ==
    shFound # Idle =>
        \A p \in shLog :
            (WellInside(shField, p[2]) /\ Overlaps(p[2], shFound.region))
                => p[1] \in RangeOf(shFound.keys)

\* the region key k was last added with, k a key of shKeys
LatestRegion(k) ==
    shRegions[CHOOSE i \in 1..Len(shKeys) :
                /\ shKeys[i] = k
                /\ \A j \in (i + 1)..Len(shKeys) : shKeys[j] # k]

\* the two regions share a bucket
ShareBuckets(q, r) == RangeOf(shGetHashes(q)) \cap RangeOf(shGetHashes(r)) # {}

(* C12: add( key, region ) of a key that is already present updates the    *)
(* key's region: find( Q ) reports a key by the region it was last added   *)
(* with, so a key whose last region shares no bucket with Q is not         *)
(* returned, whatever regions it was added with before.                    *)
HashAddUpdatesRegion ==
    shFound # Idle =>
        \A k \in RangeOf(shKeys) :
            k \in RangeOf(shFound.keys) <=> ShareBuckets(shFound.region, LatestRegion(k))

(***************************************************************************)
(* Quadtree.  Coordinates are multiples of 1/QUnit, held as integers: the  *)
(* number v stands for v / QUnit.                                          *)
(***************************************************************************)
QUnit == 4          \* grid resolution
MaxThreshold == 1   \* options.threshold ranges over 0..MaxThreshold
MaxDepth == 2       \* options.depth ranges over 1..MaxDepth
MaxQuadAdds == 2    \* add() calls between two clear() calls

\* Math.round( v / den ) for a grid value v: the nearest integer, halves up
Round(v, den) == QUnit * ((2 * v + den * QUnit) \div (2 * den * QUnit))

\* a variant of isInField that takes every region
isInFieldAlways(field, region) == field.x <= field.x + field.width

\* isInField( field, region )
isInField(field, region) ==
    LET aMinX == field.x
        aMinY == field.y
        aMaxX == aMinX + field.width
        aMaxY == aMinY + field.height
        bMinX == region.x
        bMinY == region.y
        bMaxX == bMinX + region.width
        bMaxY == bMinY + region.height
    IN  ~(aMaxX < bMinX \/ aMinX > bMaxX \/ aMaxY < bMinY \/ aMinY > bMaxY)

\* getIndex( field, region ); the midlines are compared doubled, so that
\* field.width / 2 needs no rounding
getIndex(field, region) ==
    LET midY2 == 2 * field.x + field.width
        midX2 == 2 * field.y + field.height
        inTop == 2 * region.y < midX2 /\ 2 * (region.y + region.height) < midX2
        inBottom == 2 * region.y > midX2
        inLeft == 2 * region.x < midY2 /\ 2 * (region.x + region.width) < midY2
        inRight == 2 * region.x > midY2
    IN  IF inLeft
        THEN (IF inTop THEN 1 ELSE IF inBottom THEN 2 ELSE -1)
        ELSE IF inRight
        THEN (IF inTop THEN 0 ELSE IF inBottom THEN 3 ELSE -1)
        ELSE -1

\* new Quadtree( field, { threshold, depth, level } )
NewQuadtree(field, threshold, depth, level) ==
    [ field |-> field, threshold |-> threshold, depth |-> depth, level |-> level,
      nodes |-> <<>>, objects |-> <<>>, count |-> 0 ]

\* the four subnodes made by add() when it splits a node
SplitNodes(n) ==
    LET sw == Round(n.field.width, 2)
        sh == Round(n.field.height, 2)
        x == Round(n.field.x, 1)
        y == Round(n.field.y, 1)
        child(fx, fy) == NewQuadtree(Region(fx, fy, sw, sh), n.threshold, n.depth, n.level + 1)
    IN  << child(x + sw, y), child(x, y), child(x, y + sh), child(x + sw, y + sh) >>

\* objects[key] = region, objects a function from keys to regions
Put(objects, key, region) ==
    [k \in (DOMAIN objects) \cup {key} |-> IF k = key THEN region ELSE objects[k]]

\* delete objects[key]
Delete(objects, key) == [k \in (DOMAIN objects) \ {key} |-> objects[k]]

\* the keys of an object in enumeration order (integer keys ascend)
RECURSIVE KeysOf(_)
KeysOf(S) ==
    IF S = {} THEN <<>>
    ELSE LET m == CHOOSE k \in S : \A j \in S : k <= j
         IN  <<m>> \o KeysOf(S \ {m})

RECURSIVE QuadAdd(_, _, _)
RECURSIVE Redistribute(_, _)

\* the loop "for ( let key in objects )" of add(), over the keys still to visit
Redistribute(n, ks) ==
    IF ks = <<>> THEN n
    ELSE LET key == Head(ks)
             index == getIndex(n.field, n.objects[key])
         IN  IF index # -1
             THEN Redistribute(
                    [n EXCEPT !.objects = Delete(@, key),
                              !.count = @ - 1,
                              !.nodes[index + 1] = QuadAdd(@, key, n.objects[key])],
                    Tail(ks))
             ELSE Redistribute(n, Tail(ks))

\* Quadtree.add( key, region ) on node n: the node afterwards
QuadAdd(n, key, region) ==
    IF ~isInField(n.field, region) THEN n
    ELSE IF n.nodes # <<>> /\ getIndex(n.field, region) # -1
    THEN [n EXCEPT !.nodes[getIndex(n.field, region) + 1] = QuadAdd(@, key, region)]
    ELSE LET n1 == [n EXCEPT !.count = @ + 1, !.objects = Put(@, key, region)]
         IN  IF n1.count > n1.threshold /\ n1.level < n1.depth
             THEN LET n2 == IF n1.nodes = <<>>
                            THEN [n1 EXCEPT !.nodes = SplitNodes(n1)]
                            ELSE n1
                  IN  Redistribute(n2, KeysOf(DOMAIN n2.objects))
             ELSE n1

\* Quadtree.find( region ) on node n
RECURSIVE QuadFind(_, _)
QuadFind(n, region) ==
    IF ~isInField(n.field, region) THEN <<>>
    ELSE LET index == getIndex(n.field, region)
             keys == KeysOf(DOMAIN n.objects)
         IN  IF n.nodes # <<>>
             THEN IF index # -1
                  THEN keys \o QuadFind(n.nodes[index + 1], region)
                  ELSE keys \o QuadFind(n.nodes[1], region) \o QuadFind(n.nodes[2], region)
                            \o QuadFind(n.nodes[3], region) \o QuadFind(n.nodes[4], region)
             ELSE keys

\* root fields: 2 x 2 and 3 x 3 at the origin
QuadFields == { Region(0, 0, 2 * QUnit, 2 * QUnit), Region(0, 0, 3 * QUnit, 3 * QUnit) }

\* the regions handed to add() and find() of the quadtree
QuadRegions ==
    { Region(x, y, w, 1) :
        x \in {0, QUnit - 1, 2 * QUnit - 1}, w \in {0, 1},
        y \in {0, QUnit - 1, 2 * QUnit - 1} }

QuadInit ==
    /\ \E f \in QuadFields, t \in 0..MaxThreshold, d \in 1..MaxDepth :
          qtRoot = NewQuadtree(f, t, d, 0)
    /\ qtLog = {}
    /\ qtFound = Idle
    /\ HashIdle /\ SatIdle /\ ColIdle /\ ExtIdle

\* the keys added since the last clear()
QuadKeys == { p[1] : p \in qtLog }

\* root.add( key, region ), keys pairwise distinct between two clear() calls
QuadAddAction ==
    \E region \in QuadRegions :
        LET key == Cardinality(qtLog) + 1
        IN  /\ Cardinality(qtLog) < MaxQuadAdds
            /\ qtRoot' = QuadAdd(qtRoot, key, region)
            /\ qtLog' = qtLog \cup {<<key, region>>}
            /\ qtFound' = Idle
            /\ UNCHANGED <<shVars, satVars, colVars, extVars>>

\* Quadtree.clear() on node n: the node afterwards
QuadCleared(n) == [n EXCEPT !.nodes = <<>>, !.objects = <<>>, !.count = 0]

\* root.clear()
QuadClear ==
    /\ qtLog # {}
    /\ qtRoot' = QuadCleared(qtRoot)
    /\ qtLog' = {}
    /\ qtFound' = Idle
    /\ UNCHANGED <<shVars, satVars, colVars, extVars>>

\* root.find( region ), the result kept in qtFound
QuadFindAction ==
    \E region \in QuadRegions :
        /\ qtFound' = [region |-> region, keys |-> QuadFind(qtRoot, region)]
        /\ UNCHANGED <<qtRoot, qtLog, shVars, satVars, colVars, extVars>>

QuadNext == QuadAddAction \/ QuadClear \/ QuadFindAction

SpecQuad == QuadInit /\ [][QuadNext]_vars

(* C2: Quadtree has no false negatives: for any threshold and depth and    *)
(* any adds with distinct keys since the last clear(), find(Q) includes    *)
(* key k for every added (k, R) with R contained in the root field and R,  *)
(* Q overlapping.                                                          *)
QuadNoFalseNegatives ==
    qtFound # Idle =>
        \A p \in qtLog :
            (Inside(qtRoot.field, p[2]) /\ Overlaps(p[2], qtFound.region))
                => p[1] \in RangeOf(qtFound.keys)

(***************************************************************************)
(* Polygon against polygon: a caller that tests pairs of convex polygons   *)
(* with one Response, clears it, and moves the first polygon out of the    *)
(* second by the overlap vector.                                           *)
(***************************************************************************)
MaxBox == 2       \* box widths and heights range over 1..MaxBox
MaxPos == 2       \* the second polygon's position ranges over -MaxPos..MaxPos + 1
MaxTests == 2     \* tests made in one run

\* the triangle of the tests, at a tenth of its size
Triangle == << IVec(0, 0), IVec(2, 0), IVec(0, 2) >>

\* the first polygon: a box of Box.toPolygon or the triangle, at the origin
SatFirst ==
    { toPolygon(Box(IVec(0, 0), I(w), I(h))) : w \in 1..MaxBox, h \in 1..MaxBox }
    \cup { PolygonCreate(IVec(0, 0), Triangle) }

\* the second polygon: a square box or the triangle, anywhere on the grid
SatSecond ==
    { toPolygon(Box(IVec(x, y), I(w), I(w))) :
        x \in (-MaxPos)..(MaxPos + 1), y \in {-1, 0, MaxPos}, w \in 1..MaxBox }
    \cup { PolygonCreate(IVec(x, y), Triangle) :
        x \in (-MaxPos)..(MaxPos + 1), y \in {-1, 0, MaxPos} }

SatInit ==
    /\ satA \in SatFirst
    /\ satB \in SatSecond
    /\ satResponse = NewResponse
    /\ satFresh = TRUE
    /\ satMoved = FALSE
    /\ satLast = Idle
    /\ satPrev = Idle
    /\ satTests = 0
    /\ HashIdle /\ QuadIdle /\ ColIdle /\ ExtIdle

\* collision.test( a, b, response ) for two polygons
SatRecord(r) ==
    /\ satResponse' = r.response
    /\ satLast' = [ a |-> satA, b |-> satB, before |-> satResponse,
                    after |-> r.response, result |-> r.result,
                    fresh |-> satFresh, moved |-> satMoved ]
SatTest ==
    /\ satTests < MaxTests
    /\ SatRecord(testPolygonPolygon(satA, satB, satResponse, TRUE))
    /\ satPrev' = satLast
    /\ satFresh' = FALSE
    /\ satMoved' = FALSE
    /\ satTests' = satTests + 1
    /\ UNCHANGED <<satA, satB, shVars, qtVars, colVars, extVars>>

\* response.clear()
SatClear ==
    /\ ~satFresh
    /\ satResponse' = clear(satResponse)
    /\ satFresh' = TRUE
    /\ UNCHANGED <<satA, satB, satMoved, satLast, satPrev, satTests, shVars, qtVars, colVars, extVars>>

\* the caller subtracts response.overlapV from the first polygon's position
\* after a test of this pair, with a cleared response, that returned true
SatSeparate ==
    /\ satLast # Idle /\ satLast.result /\ satLast.fresh
    /\ satLast.a = satA /\ satLast.b = satB
    /\ satA' = [satA EXCEPT !.position = sub(satA.position, satResponse.overlapV)]
    /\ satMoved' = TRUE
    /\ UNCHANGED <<satB, satResponse, satFresh, satLast, satPrev, satTests, shVars, qtVars, colVars, extVars>>

\* the caller goes on to a second polygon one step to the left or right,
\* keeping the Response
SatNextPair ==
    /\ satLast # Idle /\ satLast.b = satB /\ ~satMoved
    /\ satTests < MaxTests
    /\ \E step \in {-1, 1} :
          LET x == NAdd(satB.position.x, I(step))
          IN  /\ NGe(x, I(-MaxPos)) /\ NLe(x, I(MaxPos + 1))
              /\ satB' = PolygonCreate(Vec(x, satB.position.y), satB.points)
    /\ UNCHANGED <<satA, satResponse, satFresh, satMoved, satLast, satPrev, satTests,
                   shVars, qtVars, colVars, extVars>>

SatNext == SatTest \/ SatClear \/ SatSeparate \/ SatNextPair

SpecSAT == SatInit /\ [][SatNext]_vars

(***************************************************************************)
(* What the polygon test is required to compute, stated on the polygons'   *)
(* points in world coordinates.                                            *)
(***************************************************************************)
WorldPoints(p) == [i \in 1..Len(p.calcPoints) |-> add(p.position, p.calcPoints[i])]

\* the perpendiculars of the polygon's edges, not normalised
EdgeNormals(p) ==
    LET w == WorldPoints(p)
        n == Len(w)
    IN  { perp(sub(w[IF i < n THEN i + 1 ELSE 1], w[i])) : i \in 1..n }

\* the interval <<low, high>> the polygon covers on an axis
ProjectionInterval(p, axis) ==
    LET w == WorldPoints(p)
        ds == { dot(w[i], axis) : i \in 1..Len(w) }
    IN  << CHOOSE d \in ds : \A e \in ds : NLe(d, e),
           CHOOSE d \in ds : \A e \in ds : NGe(d, e) >>

IntervalsOverlap(ia, ib) == NLe(ia[1], ib[2]) /\ NLe(ib[1], ia[2])

NoSeparatingNormal(p, q) ==
    \A n \in EdgeNormals(p) \cup EdgeNormals(q) :
        IntervalsOverlap(ProjectionInterval(p, n), ProjectionInterval(q, n))

\* the polygon is what Box.toPolygon makes of a box of positive width and height
IsRectangle(p) ==
    /\ Len(p.calcPoints) = 4
    /\ NSign(p.calcPoints[3].x) > 0 /\ NSign(p.calcPoints[3].y) > 0
    /\ p.calcPoints = toPolygon(Box(p.position, p.calcPoints[3].x, p.calcPoints[3].y)).calcPoints

XInterval(p) == << p.position.x, NAdd(p.position.x, p.calcPoints[3].x) >>
YInterval(p) == << p.position.y, NAdd(p.position.y, p.calcPoints[3].y) >>

(* C3: a test of two convex polygons returns true exactly when no edge     *)
(* normal of either polygon separates their projections; for two           *)
(* axis-aligned rectangles that is the overlap of their x-intervals and of *)
(* their y-intervals.                                                      *)
PolygonTestIsNoSeparatingNormal ==
    satLast # Idle =>
        /\ satLast.result = NoSeparatingNormal(satLast.a, satLast.b)
        /\ (IsRectangle(satLast.a) /\ IsRectangle(satLast.b)) =>
              satLast.result =
                  ( /\ IntervalsOverlap(XInterval(satLast.a), XInterval(satLast.b))
                    /\ IntervalsOverlap(YInterval(satLast.a), YInterval(satLast.b)) )

\* a test returned false for a triangle and a rectangle whose x- and y-extents
\* overlap: only the slanted edge's normal separates them
SeparatedBySlantedNormalOnly ==
    /\ satLast # Idle
    /\ ~satLast.result
    /\ Len(satLast.a.calcPoints) = 3 /\ IsRectangle(satLast.b)
    /\ IntervalsOverlap(ProjectionInterval(satLast.a, IVec(1, 0)),
                        ProjectionInterval(satLast.b, IVec(1, 0)))
    /\ IntervalsOverlap(ProjectionInterval(satLast.a, IVec(0, 1)),
                        ProjectionInterval(satLast.b, IVec(0, 1)))

(* C6: after a test of two polygons with a cleared Response returned true  *)
(* and response.overlapV was subtracted from the first polygon's position, *)
(* the test of the moved polygon against the second returns false.         *)
SeparatedAfterSubtractingOverlapV ==
    (satLast # Idle /\ satLast.moved) => ~satLast.result

\* the axes testPolygonPolygon goes through, in its order
TestedAxes(p, q) == p.normals \o q.normals

\* the signed overlap of the two polygons on an axis: the shorter way out,
\* negative when it is the way towards the low end
SignedOverlap(p, q, axis) ==
    LET ia == ProjectionInterval(p, axis)
        ib == ProjectionInterval(q, axis)
        option1 == NSub(ia[2], ib[1])
        option2 == NSub(ib[2], ia[1])
    IN  IF NLt(option1, option2) THEN option1 ELSE NNeg(option2)

(* C7: when a test of two polygons with a freshly cleared Response returns *)
(* true, response.overlap is the least absolute signed overlap over the    *)
(* edge normals of both polygons, response.overlapN is an axis of that     *)
(* least overlap, reversed exactly when its signed overlap is negative,    *)
(* and response.overlapV is overlapN scaled by overlap; when the Response  *)
(* was not cleared, the overlap is the smaller of that and the overlap the *)
(* Response already held.                                                  *)
OverlapIsLeastAxisOverlap ==
    (satLast # Idle /\ satLast.result) =>
        LET axes == TestedAxes(satLast.a, satLast.b)
            so(i) == SignedOverlap(satLast.a, satLast.b, axes[i])
            r == satLast.after
            least == CHOOSE i \in 1..Len(axes) :
                        \A j \in 1..Len(axes) : NLe(NAbs(so(i)), NAbs(so(j)))
        IN  /\ satLast.fresh =>
                /\ r.overlap = NAbs(so(least))
                /\ \E i \in 1..Len(axes) :
                      /\ NAbs(so(i)) = r.overlap
                      /\ r.overlapN = IF NSign(so(i)) < 0 THEN reverse(axes[i]) ELSE axes[i]
            /\ ~satLast.fresh =>
                r.overlap = IF NLt(NAbs(so(least)), satLast.before.overlap)
                            THEN NAbs(so(least)) ELSE satLast.before.overlap
            /\ r.overlapV = scale(r.overlapN, r.overlap)

\* a test with a cleared Response reported a reversed axis, the Response was
\* then used again without clear() for a pair that overlaps more, and the
\* overlap it reports is still the one of the first pair
StaleOverlapAfterReversedAxis ==
    /\ satPrev # Idle /\ satPrev.fresh /\ satPrev.result
    /\ NSign(satPrev.after.overlap) > 0
    /\ \E i \in 1..Len(TestedAxes(satPrev.a, satPrev.b)) :
          LET axis == TestedAxes(satPrev.a, satPrev.b)[i]
          IN  /\ NSign(SignedOverlap(satPrev.a, satPrev.b, axis)) < 0
              /\ satPrev.after.overlapN = reverse(axis)
              /\ satPrev.after.overlap = NAbs(SignedOverlap(satPrev.a, satPrev.b, axis))
    /\ satLast # Idle /\ ~satLast.fresh /\ satLast.result
    /\ satLast.b # satPrev.b
    /\ satLast.after.overlap = satPrev.after.overlap
    /\ \A i \in 1..Len(TestedAxes(satLast.a, satLast.b)) :
          NGt(NAbs(SignedOverlap(satLast.a, satLast.b, TestedAxes(satLast.a, satLast.b)[i])),
              satLast.after.overlap)

(***************************************************************************)
(* Circles, polygon against circle, and the dispatch of Collision.test     *)
(***************************************************************************)
\* Circle.create( position, radius )
CircleCreate(position, radius) ==
    [position |-> Vec(position.x, position.y), radius |-> radius]

\* testCircleCircle once diff is known:
\* [result |-> the value returned, response |-> the response afterwards]
circlesRespond(a, b, response, dist, normal, overlap) ==
    [response EXCEPT
        !.a = a, !.b = b, !.overlap = overlap, !.overlapN = normal,
        !.overlapV = scale(normal, overlap),
        !.aInB = NLe(a.radius, b.radius) /\ NLe(dist, NSub(b.radius, a.radius)),
        !.bInA = NLe(b.radius, a.radius) /\ NLe(dist, NSub(a.radius, b.radius))]
circlesOverlap(diff, a, b, response, totalRadius, dist) ==
    circlesRespond(a, b, response, dist, normalize(diff), NSub(totalRadius, dist))
circlesCompare(diff, a, b, response, withResponse, totalRadius, distanceSq) ==
    IF NGt(distanceSq, NMul(totalRadius, totalRadius))
    THEN [result |-> FALSE, response |-> response]
    ELSE IF ~withResponse THEN [result |-> TRUE, response |-> response]
    ELSE [ result |-> TRUE,
           response |-> circlesOverlap(diff, a, b, response, totalRadius,
                                       NSqrt(distanceSq)) ]
circleCircleFrom(diff, a, b, response, withResponse) ==
    circlesCompare(diff, a, b, response, withResponse,
                   NAdd(a.radius, b.radius), len2(diff))

\* a variant that takes the difference from b to a
testCircleCircleReversed(a, b, response, withResponse) ==
    circleCircleFrom(sub(a.position, b.position), a, b, response, withResponse)

\* testCircleCircle( a, b, response )
testCircleCircle(a, b, response, withResponse) ==
    circleCircleFrom(sub(b.position, a.position), a, b, response, withResponse)

LEFT_VORONOI_REGION == -1
MIDDLE_VORONOI_REGION == 0
RIGHT_VORONOI_REGION == 1

\* a variant that takes every point for one beside the edge
voronoiRegionMiddle(line, point) == MIDDLE_VORONOI_REGION

\* voronoiRegion( line, point )
voronoiBeyond(lineLen2, dp) ==
    IF NSign(dp) < 0 THEN LEFT_VORONOI_REGION
    ELSE IF NGt(dp, lineLen2) THEN RIGHT_VORONOI_REGION
    ELSE MIDDLE_VORONOI_REGION
voronoiRegion(line, point) == voronoiBeyond(len2(line), dot(point, line))

\* what one edge of testPolygonCircle finds: separated when it returns false,
\* else the response so far and the overlap and overlapN of this edge
\* (overlapN is Null when the edge sets none)
NoOverlap(response) ==
    [separated |-> FALSE, response |-> response, overlapN |-> Null, overlap |-> I(0)]
Separated(response) ==
    [separated |-> TRUE, response |-> response, overlapN |-> Null, overlap |-> I(0)]

\* the circle against the vertex that point is relative to
vertexIntersects(point, radius, response, withResponse, dist) ==
    IF NGt(dist, radius) THEN Separated(response)
    ELSE IF withResponse
    THEN [ separated |-> FALSE, response |-> [response EXCEPT !.bInA = FALSE],
           overlapN |-> normalize(point), overlap |-> NSub(radius, dist) ]
    ELSE NoOverlap(response)
vertexRegion(point, radius, response, withResponse) ==
    vertexIntersects(point, radius, response, withResponse, len(point))

\* the circle against the line of the edge
middleIntersects(radius, response, withResponse, normal, dist, overlap) ==
    IF NSign(dist) > 0 /\ NGt(NAbs(dist), radius) THEN Separated(response)
    ELSE IF withResponse
    THEN [ separated |-> FALSE,
           response |-> IF NSign(dist) >= 0 \/ NLt(overlap, NMul(I(2), radius))
                        THEN [response EXCEPT !.bInA = FALSE] ELSE response,
           overlapN |-> normal, overlap |-> overlap ]
    ELSE NoOverlap(response)
middleDistance(radius, response, withResponse, normal, dist) ==
    middleIntersects(radius, response, withResponse, normal, dist, NSub(radius, dist))
middleNormal(point, radius, response, withResponse, normal) ==
    middleDistance(radius, response, withResponse, normal, dot(point, normal))
middleRegion(edge, point, radius, response, withResponse) ==
    middleNormal(point, radius, response, withResponse, normalize(perp(edge)))

\* the end of the loop body: keep the overlap if it is the smallest so far
keepSmallest(found, withResponse) ==
    IF /\ ~found.separated /\ found.overlapN # Null /\ withResponse
       /\ NLt(NAbs(found.overlap), NAbs(found.response.overlap))
    THEN [ separated |-> FALSE,
           response |-> [found.response EXCEPT
               !.overlap = found.overlap, !.overlapN = found.overlapN] ]
    ELSE [separated |-> found.separated, response |-> found.response]

\* the loop body of testPolygonCircle for edge i
nextEdge(points, i) == IF i = Len(points) THEN 1 ELSE i + 1
prevEdge(points, i) == IF i = 1 THEN Len(points) ELSE i - 1
leftRegion(point, radius, flagged, withResponse, region2) ==
    IF region2 = RIGHT_VORONOI_REGION
    THEN vertexRegion(point, radius, flagged, withResponse)
    ELSE NoOverlap(flagged)
rightRegion(point, radius, flagged, withResponse, region2) ==
    IF region2 = LEFT_VORONOI_REGION
    THEN vertexRegion(point, radius, flagged, withResponse)
    ELSE NoOverlap(flagged)
edgeRegions(polygon, circlePos, radius, i, withResponse, point, flagged, region) ==
    IF region = LEFT_VORONOI_REGION
    THEN leftRegion(point, radius, flagged, withResponse,
                    voronoiRegion(polygon.edges[prevEdge(polygon.calcPoints, i)],
                                  sub(circlePos,
                                      polygon.calcPoints[prevEdge(polygon.calcPoints, i)])))
    ELSE IF region = RIGHT_VORONOI_REGION
    THEN rightRegion(sub(circlePos, polygon.calcPoints[nextEdge(polygon.calcPoints, i)]),
                     radius, flagged, withResponse,
                     voronoiRegion(polygon.edges[nextEdge(polygon.calcPoints, i)],
                                   sub(circlePos,
                                       polygon.calcPoints[nextEdge(polygon.calcPoints, i)])))
    ELSE middleRegion(polygon.edges[i], point, radius, flagged, withResponse)
edgePoint(polygon, circlePos, radius, i, response, withResponse, point) ==
    edgeRegions(polygon, circlePos, radius, i, withResponse, point,
                IF withResponse /\ NGt(len2(point), NMul(radius, radius))
                THEN [response EXCEPT !.aInB = FALSE] ELSE response,
                voronoiRegion(polygon.edges[i], point))
edgeRegion(polygon, circlePos, radius, i, response, withResponse) ==
    keepSmallest(edgePoint(polygon, circlePos, radius, i, response, withResponse,
                           sub(circlePos, polygon.calcPoints[i])),
                 withResponse)

\* the loop of testPolygonCircle over the edges, from edge i on
RECURSIVE edgesLoop(_, _, _, _, _, _)
edgesContinue(polygon, circlePos, radius, i, withResponse, r) ==
    IF r.separated THEN r
    ELSE edgesLoop(polygon, circlePos, radius, i + 1, r.response, withResponse)
edgesLoop(polygon, circlePos, radius, i, response, withResponse) ==
    IF i > Len(polygon.calcPoints) THEN [separated |-> FALSE, response |-> response]
    ELSE edgesContinue(polygon, circlePos, radius, i, withResponse,
                       edgeRegion(polygon, circlePos, radius, i, response, withResponse))

\* testPolygonCircle( polygon, circle, response )
polygonCircleFinal(polygon, circle, r) ==
    [r EXCEPT !.a = polygon, !.b = circle, !.overlapV = scale(r.overlapN, r.overlap)]
polygonCircleResult(polygon, circle, response, withResponse, r) ==
    IF r.separated THEN [result |-> FALSE, response |-> r.response]
    ELSE IF ~withResponse THEN [result |-> TRUE, response |-> response]
    ELSE [result |-> TRUE, response |-> polygonCircleFinal(polygon, circle, r.response)]
testPolygonCircle(polygon, circle, response, withResponse) ==
    polygonCircleResult(polygon, circle, response, withResponse,
                        edgesLoop(polygon, sub(circle.position, polygon.position),
                                  circle.radius, 1, response, withResponse))

\* testCirclePolygon( circle, polygon, response )
swapResponse(r) ==
    [r EXCEPT !.overlapN = reverse(r.overlapN), !.overlapV = reverse(r.overlapV),
              !.a = r.b, !.b = r.a, !.aInB = r.bInA, !.bInA = r.aInB]
circlePolygonResult(withResponse, r) ==
    IF r.result /\ withResponse
    THEN [result |-> TRUE, response |-> swapResponse(r.response)] ELSE r
testCirclePolygon(circle, polygon, response, withResponse) ==
    circlePolygonResult(withResponse,
                        testPolygonCircle(polygon, circle, response, withResponse))

\* whether an object has the property
Has(object, property) == property \in DOMAIN object

\* the kind Collision.test takes a shape for
typeOf(shape) ==
    IF Has(shape, "radius") /\ NSign(shape.radius) # 0 THEN "circle"
    ELSE IF Has(shape, "points") THEN "polygon"
    ELSE "box"

\* how a call ends: ran is the pairwise test it entered, or "none"
Returned(ran, r) ==
    [ status |-> "returned", error |-> "none", ran |-> ran,
      result |-> r.result, response |-> r.response ]
Threw(error, ran, response) ==
    [ status |-> "threw", error |-> error, ran |-> ran,
      result |-> FALSE, response |-> response ]

\* the polygon tests read polygon.position.x and polygon.calcPoints.length
\* before anything else
ReadsAsPolygon(shape) == Has(shape, "position") /\ Has(shape, "calcPoints")

\* Collision.test( a, b, response )
testKinds(a, b, response, withResponse, aType, bType) ==
    CASE aType = "circle" /\ bType = "circle" ->
            Returned("testCircleCircle",
                     testCircleCircle(a, b, response, withResponse))
      [] aType = "circle" /\ bType = "box" ->
            Threw("ReferenceError", "none", response)
      [] aType = "circle" /\ bType = "polygon" ->
            Returned("testCirclePolygon",
                     testCirclePolygon(a, b, response, withResponse))
      [] aType = "box" /\ bType = "circle" ->
            IF ReadsAsPolygon(a)
            THEN Returned("testPolygonCircle",
                          testPolygonCircle(a, b, response, withResponse))
            ELSE Threw("TypeError", "testPolygonCircle", response)
      [] aType = "box" /\ bType = "box" ->
            Threw("ReferenceError", "none", response)
      [] aType = "box" /\ bType = "polygon" ->
            IF ReadsAsPolygon(a)
            THEN Returned("testPolygonPolygon",
                          testPolygonPolygon(a, b, response, withResponse))
            ELSE Threw("TypeError", "testPolygonPolygon", response)
      [] aType = "polygon" /\ bType = "circle" ->
            Returned("testPolygonCircle",
                     testPolygonCircle(a, b, response, withResponse))
      [] aType = "polygon" /\ bType = "box" ->
            Threw("ReferenceError", "none", response)
      [] aType = "polygon" /\ bType = "polygon" ->
            Returned("testPolygonPolygon",
                     testPolygonPolygon(a, b, response, withResponse))
      [] OTHER ->
            Threw("Error: Invalid shapes", "none", response)
test(a, b, response, withResponse) ==
    testKinds(a, b, response, withResponse, typeOf(a), typeOf(b))

(***************************************************************************)
(* Callers of the tests: one pair of shapes, one Response.                 *)
(***************************************************************************)
MaxRadius == 2    \* circle radii range over 0..MaxRadius
MaxCoord == 3     \* circle centres range up to MaxCoord on each axis
MaxCalls == 2     \* calls with a response made in one run

\* a call is recorded with the shapes and the response it was given
ColRecord(a, b, withResponse, outcome) ==
    /\ colLast' = [ a |-> a, b |-> b, before |-> colResponse,
                    withResponse |-> withResponse, moved |-> colMoved,
                    outcome |-> outcome ]
    /\ colResponse' = outcome.response

\* collision.test( a, b, response )
ColTest ==
    /\ colCalls < MaxCalls
    /\ colMoved = "none"
    /\ ColRecord(colA, colB, TRUE, test(colA, colB, colResponse, TRUE))
    /\ colCalls' = colCalls + 1
    /\ UNCHANGED <<colA, colB, colMoved, shVars, qtVars, satVars, extVars>>

\* the caller moves the first circle by the overlap vector of a test of this
\* pair that returned true: position + overlapV or position - overlapV
ColMove ==
    /\ colLast # Idle /\ colMoved = "none"
    /\ colLast.a = colA /\ colLast.b = colB /\ colLast.withResponse
    /\ colLast.outcome.status = "returned" /\ colLast.outcome.result
    /\ colLast.outcome.ran = "testCircleCircle"
    /\ colResponse = colLast.outcome.response
    /\ \E direction \in {"plus", "minus"} :
          /\ colA' = [colA EXCEPT !.position =
                        IF direction = "plus"
                        THEN add(colA.position, colResponse.overlapV)
                        ELSE sub(colA.position, colResponse.overlapV)]
          /\ colMoved' = direction
    /\ UNCHANGED <<colB, colResponse, colLast, colCalls, shVars, qtVars, satVars, extVars>>

\* collision.test( a, b ) of the moved circle, the response omitted
ColRetest ==
    /\ colMoved # "none"
    /\ colLast.moved = "none"
    /\ ColRecord(colA, colB, FALSE, test(colA, colB, colResponse, FALSE))
    /\ UNCHANGED <<colA, colB, colMoved, colCalls, shVars, qtVars, satVars, extVars>>

\* response.clear()
ColClear ==
    /\ colResponse # clear(colResponse)
    /\ colResponse' = clear(colResponse)
    /\ UNCHANGED <<colA, colB, colMoved, colLast, colCalls, shVars, qtVars, satVars, extVars>>

\* testPolygonCircle( polygon, circle, response ), called directly
PolygonCircleTest ==
    /\ colCalls < MaxCalls
    /\ ColRecord(colA, colB, TRUE,
                 Returned("testPolygonCircle",
                          testPolygonCircle(colA, colB, colResponse, TRUE)))
    /\ colCalls' = colCalls + 1
    /\ UNCHANGED <<colA, colB, colMoved, shVars, qtVars, satVars, extVars>>

\* testCirclePolygon( circle, polygon, response ), called directly
CirclePolygonTest ==
    /\ colCalls < MaxCalls
    /\ ColRecord(colB, colA, TRUE,
                 Returned("testCirclePolygon",
                          testCirclePolygon(colB, colA, colResponse, TRUE)))
    /\ colCalls' = colCalls + 1
    /\ UNCHANGED <<colA, colB, colMoved, shVars, qtVars, satVars, extVars>>

ColStart ==
    /\ colResponse = NewResponse
    /\ colMoved = "none"
    /\ colLast = Idle
    /\ colCalls = 0
    /\ HashIdle /\ QuadIdle /\ SatIdle /\ ExtIdle

\* two circles, radius 0 included
CircleInit ==
    /\ colA \in { CircleCreate(IVec(0, 0), I(r)) : r \in 0..MaxRadius }
    /\ colB \in { CircleCreate(IVec(x, y), I(r)) :
                    x \in 0..MaxCoord, y \in 0..MaxCoord, r \in 0..MaxRadius }
    /\ ColStart

CircleNext == ColTest \/ ColMove \/ ColRetest

SpecCircle == CircleInit /\ [][CircleNext]_vars

\* the square and the circle of the tests
ExampleSquare == toPolygon(Box(IVec(0, 0), I(40), I(40)))
ExampleCircle == CircleCreate(IVec(50, 50), I(20))

\* a polygon and a circle around it, and the pair of the tests
PolygonCircleInit ==
    /\ \/ /\ colA \in { toPolygon(Box(IVec(1, 0), I(w), I(h))) :
                          w \in 1..MaxBox, h \in 1..MaxBox }
                      \cup { PolygonCreate(IVec(1, 0), Triangle) }
          /\ colB \in { CircleCreate(IVec(x, y), I(r)) :
                          x \in (-1)..(MaxCoord + 1), y \in (-1)..MaxCoord,
                          r \in 0..MaxRadius }
       \/ colA = ExampleSquare /\ colB = ExampleCircle
    /\ ColStart

PolygonCircleNext == PolygonCircleTest \/ CirclePolygonTest \/ ColClear

SpecPolygonCircle == PolygonCircleInit /\ [][PolygonCircleNext]_vars

\* the shapes handed to Collision.test: circles, a circle of radius 0, the
\* boxes of the tests, polygons, and two objects that are no shape
TestShapes ==
    { CircleCreate(IVec(0, 0), I(r)) : r \in 0..MaxRadius }
    \cup { Box(IVec(0, 0), I(20), I(20)), Box(IVec(100, 100), I(20), I(20)) }
    \cup { toPolygon(Box(IVec(0, 0), I(20), I(20))), PolygonCreate(IVec(1, 1), Triangle) }
    \cup { [position |-> IVec(0, 0)], IVec(0, 0) }

TestInit ==
    /\ colA \in TestShapes
    /\ colB \in TestShapes
    /\ ColStart

TestNext == ColTest \/ ColClear

SpecTest == TestInit /\ [][TestNext]_vars

(***************************************************************************)
(* What the tests of circles are required to compute.                      *)
(***************************************************************************)
\* the three kinds of shapes
IsCircle(shape) ==
    DOMAIN shape = {"position", "radius"} /\ NSign(shape.radius) >= 0
IsBox(shape) == DOMAIN shape = {"position", "width", "height"}
IsPolygon(shape) == Has(shape, "points") /\ Has(shape, "calcPoints")
IsShape(shape) == IsCircle(shape) \/ IsBox(shape) \/ IsPolygon(shape)

\* the squared distance between two points
DistanceSq(p, q) ==
    NAdd(NMul(NSub(q.x, p.x), NSub(q.x, p.x)), NMul(NSub(q.y, p.y), NSub(q.y, p.y)))

RadiusSum(a, b) == NAdd(a.radius, b.radius)

\* the centres are no further apart than the sum of the radii
CirclesMeet(a, b) ==
    NLe(DistanceSq(a.position, b.position), NMul(RadiusSum(a, b), RadiusSum(a, b)))

(* C4: a test of two circles returns true exactly when the distance of the *)
(* centres is at most the sum of the radii; when it is true the response   *)
(* holds overlap = (sum of radii) - distance, aInB exactly when A.radius   *)
(* <= B.radius and distance <= B.radius - A.radius, and bInA likewise.     *)
CircleTestIsDistance ==
    (colLast # Idle /\ IsCircle(colLast.a) /\ IsCircle(colLast.b)) =>
        LET a == colLast.a
            b == colLast.b
            o == colLast.outcome
            distance == NSqrt(DistanceSq(a.position, b.position))
        IN  /\ o.status = "returned"
            /\ o.result = CirclesMeet(a, b)
            /\ (o.result /\ colLast.withResponse) =>
                  /\ o.response.overlap = NSub(RadiusSum(a, b), distance)
                  /\ o.response.aInB =
                        (NLe(a.radius, b.radius) /\ NLe(distance, NSub(b.radius, a.radius)))
                  /\ o.response.bInA =
                        (NLe(b.radius, a.radius) /\ NLe(distance, NSub(a.radius, b.radius)))

DistanceSqToSegment(p, s, e) ==
    LET along == dot(sub(p, s), sub(e, s))
        edgeLen2 == len2(sub(e, s))
    IN  IF NSign(along) <= 0 THEN DistanceSq(p, s)
        ELSE IF NGe(along, edgeLen2) THEN DistanceSq(p, e)
        ELSE NSub(DistanceSq(p, s), NDiv(NMul(along, along), edgeLen2))

\* the side of the line from s to e the point is on
Side(p, s, e) ==
    NSign(NSub(NMul(NSub(e.x, s.x), NSub(p.y, s.y)), NMul(NSub(e.y, s.y), NSub(p.x, s.x))))

\* the point is in the convex polygon with the corners w, border included
InConvex(p, w) ==
    LET sides == { Side(p, w[i], w[IF i < Len(w) THEN i + 1 ELSE 1]) : i \in 1..Len(w) }
    IN  ~(1 \in sides /\ -1 \in sides)

\* the closest point of the polygon is no further from the circle's centre
\* than the radius
CircleReachesPolygon(polygon, circle) ==
    LET w == WorldPoints(polygon)
    IN  \/ InConvex(circle.position, w)
        \/ \E i \in 1..Len(w) :
              NLe(DistanceSqToSegment(circle.position, w[i],
                                      w[IF i < Len(w) THEN i + 1 ELSE 1]),
                  NMul(circle.radius, circle.radius))

(* C8: testPolygonCircle returns true exactly when the closest point of    *)
(* the polygon is at most the radius away from the circle's centre, a      *)
(* centre inside the polygon included; the square from (0,0) to (40,40)    *)
(* and the circle at (50,50) of radius 20 collide with overlap             *)
(* 20 - sqrt(200).                                                         *)
PolygonCircleTestIsDistance ==
    (colLast # Idle /\ colLast.outcome.ran = "testPolygonCircle") =>
        /\ colLast.outcome.result = CircleReachesPolygon(colLast.a, colLast.b)
        /\ ( /\ colLast.a = ExampleSquare /\ colLast.b = ExampleCircle
             /\ colLast.before.overlap = MAX_VALUE ) =>
                /\ colLast.outcome.result
                /\ colLast.outcome.response.overlap = NSub(I(20), NSqrt(I(200)))

\* the square and the circle of the example were tested with a new Response
ExampleSquareAndCircleTested ==
    /\ colLast # Idle /\ colLast.outcome.ran = "testPolygonCircle"
    /\ colLast.a = ExampleSquare /\ colLast.b = ExampleCircle
    /\ colLast.before = NewResponse
    /\ colLast.outcome.result

(* C9: Collision.test of any two shapes - circles (radius 0 included),     *)
(* boxes and polygons - returns a boolean without raising; the box         *)
(* [0,0,20,20] against the box [100,100,20,20] returns false.              *)
TestReturnsForAllShapes ==
    (colLast # Idle /\ IsShape(colLast.a) /\ IsShape(colLast.b)) =>
        /\ colLast.outcome.status = "returned"
        /\ colLast.outcome.result \in BOOLEAN
        /\ ( /\ colLast.a = Box(IVec(0, 0), I(20), I(20))
             /\ colLast.b = Box(IVec(100, 100), I(20), I(20)) ) =>
                ~colLast.outcome.result

(* C10: Collision.test of an object that is no circle, box or polygon      *)
(* fails with the invalid-shapes error, enters no pairwise test and leaves *)
(* the response as it was.                                                 *)
TestRejectsInvalidShapes ==
    (colLast # Idle /\ (~IsShape(colLast.a) \/ ~IsShape(colLast.b))) =>
        /\ colLast.outcome.status = "threw"
        /\ colLast.outcome.error = "Error: Invalid shapes"
        /\ colLast.outcome.ran = "none"
        /\ colLast.outcome.response = colLast.before

(***************************************************************************)
(* Polygon utilities: a caller that creates a polygon and changes it with  *)
(* Polygon.setPoints, setAngle, setOffset, rotate and translate.           *)
(***************************************************************************)
MaxPolyCalls == 2   \* utility calls made on one polygon

\* Polygon.setAngle( polygon, angle )
setAngle(polygon, angle) == recalcPolygon([polygon EXCEPT !.angle = angle])

\* Polygon.setOffset( polygon, offset )
setOffset(polygon, offset) == recalcPolygon([polygon EXCEPT !.offset = offset])

\* the object Polygon: its properties are the utilities, and it is `this`
\* in Polygon.rotate( polygon, angle ) and Polygon.translate( polygon, x, y )
PolygonUtilities ==
    [ name \in { "create", "setPoints", "setAngle", "setOffset", "rotate",
                 "translate", "getAABB" } |-> "function" ]

\* how a utility call ends, and the polygon it leaves
PolygonReturned(polygon) ==
    [status |-> "returned", error |-> "none", polygon |-> polygon]
PolygonThrew(error, polygon) ==
    [status |-> "threw", error |-> error, polygon |-> polygon]

\* the loops of rotate and translate over the points they read from `this`
rotatePoints(points, angle) == [i \in 1..Len(points) |-> rotate(points[i], angle)]
translatePoints(points, x, y) == [i \in 1..Len(points) |-> add(points[i], Vec(x, y))]

\* Polygon.rotate( polygon, angle ) with the given `this`: points is
\* this.points, and points.length of undefined is a TypeError
PolygonRotate(this, polygon, angle) ==
    IF ~Has(this, "points") THEN PolygonThrew("TypeError", polygon)
    ELSE PolygonReturned(recalcPolygon(
            IF this = polygon
            THEN [polygon EXCEPT !.points = rotatePoints(this.points, angle)]
            ELSE polygon))

\* Polygon.translate( polygon, x, y ) with the given `this`
PolygonTranslate(this, polygon, x, y) ==
    IF ~Has(this, "points") THEN PolygonThrew("TypeError", polygon)
    ELSE PolygonReturned(recalcPolygon(
            IF this = polygon
            THEN [polygon EXCEPT !.points = translatePoints(this.points, x, y)]
            ELSE polygon))

\* the point lists, angles and offsets handed to the utilities
UnitSquare == << IVec(0, 0), IVec(1, 0), IVec(1, 1), IVec(0, 1) >>
PolyPoints == { Triangle, UnitSquare }
PolyAngles == { ZeroAngle, Angle(I(0), I(1)), Angle(NDiv(I(3), I(5)), NDiv(I(4), I(5))) }
PolyOffsets == { IVec(0, 0), IVec(1, 2) }

\* Polygon.create( position, points )
PolyInit ==
    /\ polyP \in { PolygonCreate(IVec(x, 0), points) : x \in {0, 1}, points \in PolyPoints }
    /\ polyLast = [op |-> "create", status |-> "returned", error |-> "none", before |-> Null]
    /\ polyCalls = 0
    /\ HashIdle /\ QuadIdle /\ SatIdle /\ ColIdle /\ PartIdle /\ HitIdle /\ SweepIdle

\* the call is recorded and the polygon is what the call left
PolyRecord(op, outcome) ==
    /\ polyCalls < MaxPolyCalls
    /\ polyP' = outcome.polygon
    /\ polyLast' = [op |-> op, status |-> outcome.status, error |-> outcome.error,
                    before |-> polyP]
    /\ polyCalls' = polyCalls + 1
    /\ UNCHANGED <<shVars, qtVars, satVars, colVars, ixLast, hitVars, swLast>>

PolySetPoints ==
    \E points \in PolyPoints :
        PolyRecord("setPoints", PolygonReturned(setPoints(polyP, points)))

PolySetAngle ==
    \E angle \in PolyAngles :
        PolyRecord("setAngle", PolygonReturned(setAngle(polyP, angle)))

PolySetOffset ==
    \E offset \in PolyOffsets :
        PolyRecord("setOffset", PolygonReturned(setOffset(polyP, offset)))

\* Polygon.rotate( polygon, angle )
PolyRotate ==
    \E angle \in PolyAngles :
        PolyRecord("rotate", PolygonRotate(PolygonUtilities, polyP, angle))

\* Polygon.translate( polygon, x, y )
PolyTranslate ==
    \E x \in {0, 1} :
        PolyRecord("translate", PolygonTranslate(PolygonUtilities, polyP, I(x), I(1)))

PolyNext == PolySetPoints \/ PolySetAngle \/ PolySetOffset \/ PolyRotate \/ PolyTranslate

SpecPoly == PolyInit /\ [][PolyNext]_vars

\* calcPoints, edges and normals are what points, offset and angle give
DerivedState(p) ==
    LET n == Len(p.points)
    IN  /\ Len(p.calcPoints) = n /\ Len(p.edges) = n /\ Len(p.normals) = n
        /\ \A i \in 1..n :
              /\ p.calcPoints[i] = rotate(add(p.points[i], p.offset), p.angle)
              /\ p.edges[i] = sub(p.calcPoints[(i % n) + 1], p.calcPoints[i])
              /\ p.normals[i] = normalize(perp(p.edges[i]))

(* C11: Polygon.create and every call of Polygon.setPoints, setAngle,      *)
(* setOffset, rotate and translate completes and leaves the polygon with   *)
(* calcPoints, edges and normals of the length of points, calcPoints[i] =  *)
(* rotate(points[i] + offset, angle), edges[i] = calcPoints[i+1 mod n] -   *)
(* calcPoints[i] and normals[i] = normalize(perp(edges[i])).               *)
PolygonCallsKeepDerivedState ==
    polyLast # Idle =>
        /\ polyLast.status = "returned"
        /\ DerivedState(polyP)

(***************************************************************************)
(* The two spatial partitions side by side: a caller that keeps a          *)
(* SpatialHash and a Quadtree over the same field and hands every add,     *)
(* clear and find to both.  A region of the caller is in whole units; the  *)
(* quadtree's copy is the same region on its grid of 1/QUnit.              *)
(***************************************************************************)
MaxPartAdds == 2    \* add() calls between two clear() calls

\* the region in the coordinates of the quadtree model
QRegion(r) == Region(r.x * QUnit, r.y * QUnit, r.width * QUnit, r.height * QUnit)

PartFields == { Region(0, 0, 4, 4), Region(0, 0, 3, 3) }

\* the regions handed to add() and find(): inside the field, and outside it
\* on the near and on the far side
PartRegions ==
    { Region(0, 0, 0, 0), Region(1, 1, 1, 1), Region(3, 0, 0, 1), Region(2, 2, 0, 0),
      Region(-2, 0, 1, 1), Region(5, 5, 1, 1) }

\* SpatialHash.add's loop stops at the first hash that names no bucket:
\* objects[hash].push of undefined is a TypeError
RECURSIVE PushedHashes(_, _)
PushedHashes(objects, hashes) ==
    IF hashes = <<>> \/ Head(hashes) \notin DOMAIN objects THEN <<>>
    ELSE <<Head(hashes)>> \o PushedHashes(objects, Tail(hashes))

PartInit ==
    /\ shField \in PartFields
    /\ shDivisions \in { d \in {1, 2, 4} : d <= HashNearest(shField) }
    /\ shObjects = [b \in Buckets(shDivisions) |-> <<>>]
    /\ shKeys = <<>>
    /\ shCount = 0
    /\ shLog = {}
    /\ shRegions = <<>>
    /\ shFound = Idle
    /\ \E t \in 0..MaxThreshold, d \in 1..MaxDepth :
          qtRoot = NewQuadtree(QRegion(shField), t, d, 0)
    /\ qtLog = {}
    /\ qtFound = Idle
    /\ ixLast = Idle
    /\ SatIdle /\ ColIdle /\ PolyIdle /\ HitIdle /\ SweepIdle

\* hash.add( key, region ); tree.add( key, region ), the keys pairwise distinct
PartAdd ==
    \E region \in PartRegions :
        /\ shCount < MaxPartAdds
        /\ shKeys' = Append(shKeys, shCount + 1)
        /\ shCount' = shCount + 1
        /\ shObjects' = PushAll(shObjects, PushedHashes(shObjects, shGetHashes(region)),
                                shCount + 1)
        /\ shLog' = shLog \cup {<<shCount + 1, region>>}
        /\ shRegions' = Append(shRegions, region)
        /\ shFound' = Idle
        /\ qtRoot' = QuadAdd(qtRoot, shCount + 1, QRegion(region))
        /\ qtLog' = qtLog \cup {<<shCount + 1, QRegion(region)>>}
        /\ qtFound' = Idle
        /\ ixLast' = [ op |-> "add", cleared |-> FALSE, key |-> shCount + 1,
                       region |-> region,
                       status |-> IF PushedHashes(shObjects, shGetHashes(region))
                                       = shGetHashes(region)
                                  THEN "returned" ELSE "threw",
                       before |-> [objects |-> shObjects, root |-> qtRoot] ]
        /\ UNCHANGED <<shField, shDivisions, satVars, colVars, polyVars, hitVars, swLast>>

\* hash.clear(); tree.clear()
PartClear ==
    /\ shCount > 0
    /\ shObjects' = ClearedObjects(shObjects)
    /\ shKeys' = <<>>
    /\ shCount' = 0
    /\ shLog' = {}
    /\ shRegions' = <<>>
    /\ shFound' = Idle
    /\ qtRoot' = QuadCleared(qtRoot)
    /\ qtLog' = {}
    /\ qtFound' = Idle
    /\ ixLast' = [ op |-> "clear", cleared |-> TRUE, key |-> 0, region |-> Null,
                   status |-> "returned",
                   before |-> [ objects |-> shObjects, root |-> qtRoot,
                                field |-> shField, divisions |-> shDivisions ] ]
    /\ UNCHANGED <<shField, shDivisions, satVars, colVars, polyVars, hitVars, swLast>>

\* hash.find( region ); tree.find( region )
PartFind ==
    \E region \in PartRegions :
        /\ ixLast # Idle
        /\ shFound' = [region |-> region, keys |-> shFind(region)]
        /\ qtFound' = [region |-> QRegion(region), keys |-> QuadFind(qtRoot, QRegion(region))]
        /\ ixLast' = [ixLast EXCEPT !.op = "find", !.region = region]
        /\ UNCHANGED <<shField, shDivisions, shObjects, shKeys, shCount, shLog, shRegions,
                       qtRoot, qtLog, satVars, colVars, polyVars, hitVars, swLast>>

PartNext == PartAdd \/ PartClear \/ PartFind

SpecPartition == PartInit /\ [][PartNext]_vars

(* C13: after clear() and until the next add(), find( Q ) on either        *)
(* partition returns no key for every region Q, whatever was added before; *)
(* clear() leaves the field, the divisions and the options as they were,   *)
(* the SpatialHash keeps its divisions x divisions buckets, all empty, and *)
(* the Quadtree has no subnodes, no objects and count 0.                   *)
ClearEmptiesBothPartitions ==
    (ixLast # Idle /\ ixLast.cleared) =>
        /\ \A q \in PartRegions :
              shFind(q) = <<>> /\ QuadFind(qtRoot, QRegion(q)) = <<>>
        /\ ixLast.op = "find" => (shFound.keys = <<>> /\ qtFound.keys = <<>>)
        /\ shField = ixLast.before.field
        /\ shDivisions = ixLast.before.divisions
        /\ DOMAIN shObjects = Buckets(shDivisions)
        /\ \A b \in DOMAIN shObjects : shObjects[b] = <<>>
        /\ shKeys = <<>> /\ shCount = 0
        /\ qtRoot.field = ixLast.before.root.field
        /\ qtRoot.threshold = ixLast.before.root.threshold
        /\ qtRoot.depth = ixLast.before.root.depth
        /\ qtRoot.level = ixLast.before.root.level
        /\ qtRoot.nodes = <<>> /\ qtRoot.objects = <<>> /\ qtRoot.count = 0

\* a find after a clear() of partitions that held keys in their buckets and
\* in subnodes
FoundNothingAfterClear ==
    /\ ixLast # Idle /\ ixLast.cleared /\ ixLast.op = "find"
    /\ ixLast.before.root.nodes # <<>>
    /\ \E b \in DOMAIN ixLast.before.objects : ixLast.before.objects[b] # <<>>
    /\ Overlaps(shFound.region, Region(0, 0, 0, 0))

(* C14: Quadtree.add of a region that does not overlap the node's field    *)
(* raises nothing and leaves the node's objects, count and subnodes as     *)
(* they were, and no later find returns that key; SpatialHash.add of the   *)
(* same region returns without raising.                                    *)
AddOutsideFieldIsIgnored ==
    /\ (ixLast # Idle /\ ixLast.op = "add"
            /\ ~Overlaps(qtRoot.field, QRegion(ixLast.region))) =>
          /\ qtRoot = ixLast.before.root
          /\ ixLast.status = "returned"
    /\ qtFound # Idle =>
          \A p \in qtLog :
              ~Overlaps(qtRoot.field, p[2]) => p[1] \notin RangeOf(qtFound.keys)

\* a region outside the field was added to partitions that held a key, and
\* the hash gave it no bucket
OutsideRegionAdded ==
    /\ ixLast # Idle /\ ixLast.op = "add"
    /\ ~Overlaps(qtRoot.field, QRegion(ixLast.region))
    /\ ixLast.before.root.count > 0
    /\ shObjects = ixLast.before.objects

(***************************************************************************)
(* Collision.hit.  Lengths of this section are in millionths: the number   *)
(* v stands for v / 1000000, so that the side 0.000001 of pools.testPoint  *)
(* is 1.                                                                   *)
(***************************************************************************)
\* pools.response and pools.testPoint as the module creates them
NewPools ==
    [ response |-> NewResponse,
      testPoint |-> toPolygon(Box(IVec(0, 0), I(1), I(1))) ]

\* a variant of pointInCircle that leaves the border out
pointInCircleStrict(point, circle) ==
    NLt(len2(Vec(NSub(point.x, circle.position.x), NSub(point.y, circle.position.y))),
        NMul(circle.radius, circle.radius))

\* pointInCircle( point, circle )
pointInCircle(point, circle) ==
    NLe(len2(Vec(NSub(point.x, circle.position.x), NSub(point.y, circle.position.y))),
        NMul(circle.radius, circle.radius))

\* pointInPolygon( point, polygon ): testPoint is moved to the point and
\* the pooled response cleared, then the two polygons are tested;
\* [result |-> the value returned, pools |-> the pools afterwards]
pointPools(point, pools) ==
    [ response |-> clear(pools.response),
      testPoint |-> [pools.testPoint EXCEPT !.position = Vec(point.x, point.y)] ]
pointInPolygonFrom(pools, r) ==
    [ result |-> r.result /\ r.response.aInB,
      pools |-> [pools EXCEPT !.response = r.response] ]
pointInPolygonWith(pools, polygon) ==
    pointInPolygonFrom(pools,
        testPolygonPolygon(pools.testPoint, polygon, pools.response, TRUE))
pointInPolygon(point, polygon, pools) ==
    pointInPolygonWith(pointPools(point, pools), polygon)

\* how hit() ends: ran is the containment test it entered, or "none"
HitReturned(ran, r) ==
    [ status |-> "returned", error |-> "none", ran |-> ran,
      result |-> r.result, pools |-> r.pools ]
HitThrew(error, ran, pools) ==
    [ status |-> "threw", error |-> error, ran |-> ran, result |-> FALSE,
      pools |-> pools ]

\* the part of hit() that looks at the shape
hitShape(point, shape, pools) ==
    IF Has(shape, "position") /\ Has(shape, "points")
    THEN IF ReadsAsPolygon(shape)
         THEN HitReturned("pointInPolygon", pointInPolygon(point, shape, pools))
         ELSE HitThrew("TypeError", "pointInPolygon", pointPools(point, pools))
    ELSE IF Has(shape, "position") /\ Has(shape, "radius")
    THEN HitReturned("pointInCircle",
                     [result |-> pointInCircle(point, shape), pools |-> pools])
    ELSE HitThrew("Error: Shape is invalid.", "none", pools)

\* a variant of hit() that looks at the shape before the point
hitShapeFirst(point, shape, pools) ==
    IF ~Has(shape, "position") \/ (~Has(shape, "points") /\ ~Has(shape, "radius"))
    THEN HitThrew("Error: Shape is invalid.", "none", pools)
    ELSE IF Has(point, "x") /\ Has(point, "y") THEN hitShape(point, shape, pools)
    ELSE HitThrew("Error: Point is invalid.", "none", pools)

\* Collision.hit( point, shape )
hit(point, shape, pools) ==
    IF Has(point, "x") /\ Has(point, "y") THEN hitShape(point, shape, pools)
    ELSE HitThrew("Error: Point is invalid.", "none", pools)

\* the points handed to hit(): two rows of a grid and a half step, and
\* objects without x or without y
HitPoints ==
    { IVec(x, y) : x \in 0..3, y \in {0, 2} }
    \cup { Vec(NDiv(I(5), I(2)), I(2)) }
    \cup { [x |-> I(0)], [y |-> I(0)] }

\* the shapes handed to hit(): circles and a square, and a box (a position
\* without points and radius) and an object without position
HitShapes ==
    { CircleCreate(IVec(1, 1), I(r)) : r \in 0..MaxRadius }
    \cup { toPolygon(Box(IVec(1, 1), I(2), I(2))) }
    \cup { Box(IVec(0, 0), I(2), I(2)), [radius |-> I(1)] }

HitInit ==
    /\ hitPool = NewPools
    /\ hitLast = Idle
    /\ HashIdle /\ QuadIdle /\ SatIdle /\ ColIdle /\ PolyIdle /\ PartIdle /\ SweepIdle

\* collision.hit( point, shape )
HitRecord(point, shape, outcome) ==
    /\ hitPool' = outcome.pools
    /\ hitLast' = [ point |-> point, shape |-> shape, pools |-> hitPool,
                    outcome |-> outcome ]
    /\ UNCHANGED <<shVars, qtVars, satVars, colVars, polyVars, ixLast, swLast>>
Hit ==
    \E point \in HitPoints, shape \in HitShapes :
        HitRecord(point, shape, hit(point, shape, hitPool))

HitNext == Hit

SpecHit == HitInit /\ [][HitNext]_vars

IsPoint(point) == Has(point, "x") /\ Has(point, "y")

(* C15: hit( point, circle ) returns true exactly when the squared         *)
(* distance from the point to circle.position is at most the square of     *)
(* circle.radius, the border included.                                     *)
HitCircleIsDistance ==
    (hitLast # Idle /\ IsPoint(hitLast.point) /\ IsCircle(hitLast.shape)) =>
        /\ hitLast.outcome.status = "returned"
        /\ hitLast.outcome.ran = "pointInCircle"
        /\ hitLast.outcome.result
              = NLe(DistanceSq(hitLast.point, hitLast.shape.position),
                    NMul(hitLast.shape.radius, hitLast.shape.radius))

\* a point on the border of a circle was hit after a hit of a polygon
HitOnCircleBorder ==
    /\ hitLast # Idle /\ IsPoint(hitLast.point) /\ IsCircle(hitLast.shape)
    /\ NSign(hitLast.shape.radius) > 0
    /\ DistanceSq(hitLast.point, hitLast.shape.position)
          = NMul(hitLast.shape.radius, hitLast.shape.radius)
    /\ hitLast.pools # NewPools
    /\ hitLast.outcome.result

(* C16: hit( point, polygon ) returns true for every point inside the      *)
(* convex polygon and false for every point outside it, and the result     *)
(* depends on the point and the polygon only, not on the calls made        *)
(* before.                                                                 *)
HitPolygonIsInside ==
    (hitLast # Idle /\ IsPoint(hitLast.point) /\ IsPolygon(hitLast.shape)) =>
        /\ hitLast.outcome.status = "returned"
        /\ hitLast.outcome.result
              = InConvex(hitLast.point, WorldPoints(hitLast.shape))
        /\ hitLast.outcome.result
              = pointInPolygon(hitLast.point, hitLast.shape, NewPools).result

FNum(n, e, d) ==
    [ n |-> n \div Gcd(Gcd(AbsInt(n), AbsInt(e)), d),
      d |-> d \div Gcd(Gcd(AbsInt(n), AbsInt(e)), d),
      e |-> e \div Gcd(Gcd(AbsInt(n), AbsInt(e)), d) ]
F(k) == [n |-> k, d |-> 1, e |-> 0]
\* Infinity (s = 1), -Infinity (s = -1) and NaN (s = 0)
FSpecial(s) == [n |-> s, d |-> 0, e |-> 0]
\* k times Number.EPSILON
EPSILON(k) == [n |-> 0, d |-> 1, e |-> k]

FIsNaN(x) == x.d = 0 /\ x.n = 0
\* -1, 0 or 1 for a number that is not NaN
FSgn(x) == IF x.n # 0 THEN Sgn(x.n) ELSE Sgn(x.e)

FNeg(x) == [n |-> -x.n, d |-> x.d, e |-> -x.e]
FAdd(x, y) ==
    IF FIsNaN(x) \/ FIsNaN(y) THEN FSpecial(0)
    ELSE IF x.d = 0 /\ y.d = 0 THEN (IF x.n = y.n THEN x ELSE FSpecial(0))
    ELSE IF x.d = 0 THEN x
    ELSE IF y.d = 0 THEN y
    ELSE FNum(x.n * y.d + y.n * x.d, x.e * y.d + y.e * x.d, x.d * y.d)
FSub(x, y) == FAdd(x, FNeg(y))
FMul(x, y) ==
    IF FIsNaN(x) \/ FIsNaN(y) THEN FSpecial(0)
    ELSE IF x.d = 0 \/ y.d = 0
    THEN (IF FSgn(x) * FSgn(y) = 0 THEN FSpecial(0)
          ELSE FSpecial(FSgn(x) * FSgn(y)))
    ELSE FNum(x.n * y.n, x.n * y.e + x.e * y.n, x.d * y.d)
\* 1.0 / x, for an x without a multiple of Number.EPSILON; 1.0 / 0 is Infinity
FInv(x) ==
    IF FIsNaN(x) THEN FSpecial(0)
    ELSE IF x.d = 0 THEN F(0)
    ELSE IF x.n = 0 THEN FSpecial(1)
    ELSE FNum(Sgn(x.n) * x.d, 0, AbsInt(x.n))

\* x < y, x <= y, x > y, x >= y: false as soon as one side is NaN
FLt(x, y) ==
    /\ ~FIsNaN(x) /\ ~FIsNaN(y) /\ x # y
    /\ IF x.d = 0 THEN x.n < 0
       ELSE IF y.d = 0 THEN y.n > 0
       ELSE FSgn(FSub(y, x)) > 0
FLe(x, y) == ~FIsNaN(x) /\ ~FIsNaN(y) /\ (x = y \/ FLt(x, y))
FGt(x, y) == FLt(y, x)
FGe(x, y) == FLe(y, x)

\* Math.abs, Math.sign, Math.max, Math.min, Math.sqrt (of a perfect square)
FAbs(x) == IF FIsNaN(x) THEN FSpecial(0) ELSE IF FSgn(x) < 0 THEN FNeg(x) ELSE x
FSign(x) == IF FIsNaN(x) THEN FSpecial(0) ELSE F(FSgn(x))
FMax(x, y) == IF FIsNaN(x) \/ FIsNaN(y) THEN FSpecial(0) ELSE IF FLt(x, y) THEN y ELSE x
FMin(x, y) == IF FIsNaN(x) \/ FIsNaN(y) THEN FSpecial(0) ELSE IF FLt(y, x) THEN y ELSE x
FSqrt(x) == IF x.d = 0 THEN x ELSE F(ISqrt(x.n))

FVec(x, y) == [x |-> F(x), y |-> F(y)]
FPlus(p, q) == [x |-> FAdd(p.x, q.x), y |-> FAdd(p.y, q.y)]
FTimes(p, q) == [x |-> FMul(p.x, q.x), y |-> FMul(p.y, q.y)]
FScale(p, t) == [x |-> FMul(p.x, t), y |-> FMul(p.y, t)]

\* function clamp( value, min, max )
clamp(value, min, max) == FMin(max, FMax(min, value))

\* function normalize( point ): the point it leaves behind
normalizePoint(point) ==
    IF FGt(FAdd(FMul(point.x, point.x), FMul(point.y, point.y)), F(0))
    THEN FScale(point,
                FInv(FSqrt(FAdd(FMul(point.x, point.x), FMul(point.y, point.y)))))
    ELSE point

\* new Collision.Hit( collider ); time is a property added later
CollisionHit(collider) ==
    [ position |-> FVec(0, 0), normal |-> FVec(0, 0), collider |-> collider,
      delta |-> FVec(0, 0) ]
HitWithTime(h, time) ==
    [ position |-> h.position, normal |-> h.normal, collider |-> h.collider,
      delta |-> h.delta, time |-> time ]
\* new Collision.Sweep() and what is assigned to its properties afterwards;
\* a new Sweep is CollisionSweep(Null, FVec(0, 0), F(1))
CollisionSweep(h, position, time) ==
    [position |-> position, hit |-> h, time |-> time]

\* an axis-aligned box: its centre and its half size on each axis
AABB(position, half) == [position |-> position, half |-> half]

\* const { x: paddingX = 0, y: paddingY = 0 } = padding
paddingOf(padding, axis) == IF Has(padding, axis) THEN padding[axis] ELSE F(0)

\* the time at which the segment crosses the near (side = -1) or far
\* (side = 1) edge of the padded box on one axis
edgeTime(position, half, padding, start, sign, scaleXY, side) ==
    FMul(FSub(FAdd(position, FMul(F(side), FMul(sign, FAdd(half, padding)))),
              start),
         scaleXY)

\* the Hit intersectSegment builds once it has found one
segmentHit(aabb, start, delta, signX, signY, nearTimeX, nearTimeY, time) ==
    [ HitWithTime(CollisionHit(aabb), time) EXCEPT
        !.normal = IF FGt(nearTimeX, nearTimeY)
                   THEN [x |-> FNeg(signX), y |-> F(0)]
                   ELSE [x |-> F(0), y |-> FNeg(signY)],
        !.delta = FScale(delta, time),
        !.position = FPlus(start, FScale(delta, time)) ]

\* intersectSegment from the four edge times on
segmentTimes(aabb, start, delta, signX, signY, nearTimeX, nearTimeY, farTimeX, farTimeY) ==
    IF FGt(nearTimeX, farTimeY) \/ FGt(nearTimeY, farTimeX) THEN Null
    ELSE IF \/ FGe(IF FGt(nearTimeX, nearTimeY) THEN nearTimeX ELSE nearTimeY, F(1))
            \/ FLe(IF FLt(farTimeX, farTimeY) THEN farTimeX ELSE farTimeY, F(0))
    THEN Null
    ELSE segmentHit(aabb, start, delta, signX, signY, nearTimeX, nearTimeY,
             clamp(IF FGt(nearTimeX, nearTimeY) THEN nearTimeX ELSE nearTimeY,
                   F(0), F(1)))

\* intersectSegment once scaleX and scaleY are known
segmentScaled(aabb, start, delta, px, py, scaleX, scaleY) ==
    segmentTimes(aabb, start, delta, FSign(scaleX), FSign(scaleY),
        edgeTime(aabb.position.x, aabb.half.x, px, start.x, FSign(scaleX), scaleX, -1),
        edgeTime(aabb.position.y, aabb.half.y, py, start.y, FSign(scaleY), scaleY, -1),
        edgeTime(aabb.position.x, aabb.half.x, px, start.x, FSign(scaleX), scaleX, 1),
        edgeTime(aabb.position.y, aabb.half.y, py, start.y, FSign(scaleY), scaleY, 1))

\* Collision.AABB.intersectSegment( aabb, start, delta, padding )
intersectSegment(aabb, start, delta, padding) ==
    segmentScaled(aabb, start, delta, paddingOf(padding, "x"),
                  paddingOf(padding, "y"), FInv(delta.x), FInv(delta.y))

\* the Hit intersectAABB builds from the overlap px, py on the two axes
overlapHit(aabb, box, dx, dy, px, py) ==
    IF FLt(px, py)
    THEN [ CollisionHit(aabb) EXCEPT
             !.delta.x = FMul(px, FSign(dx)),
             !.normal.x = FSign(dx),
             !.position.x = FAdd(aabb.position.x, FMul(aabb.half.x, FSign(dx))),
             !.position.y = box.position.y ]
    ELSE [ CollisionHit(aabb) EXCEPT
             !.delta.y = FMul(py, FSign(dy)),
             !.normal.y = FSign(dy),
             !.position.x = box.position.x,
             !.position.y = FAdd(aabb.position.y, FMul(aabb.half.y, FSign(dy))) ]

\* intersectAABB once the overlap on the two axes is known
overlapTest(aabb, box, dx, dy, px, py) ==
    IF FLe(px, F(0)) THEN Null
    ELSE IF FLe(py, F(0)) THEN Null
    ELSE overlapHit(aabb, box, dx, dy, px, py)

\* Collision.AABB.intersectAABB( aabb, box )
intersectAABB(aabb, box) ==
    overlapTest(aabb, box,
        FSub(box.position.x, aabb.position.x),
        FSub(box.position.y, aabb.position.y),
        FSub(FAdd(box.half.x, aabb.half.x),
             FAbs(FSub(box.position.x, aabb.position.x))),
        FSub(FAdd(box.half.y, aabb.half.y),
             FAbs(FSub(box.position.y, aabb.position.y))))

\* sweepAABB with delta = (0, 0): the box is tested where it stands
stillSweep(box, h) ==
    IF h # Null
    THEN CollisionSweep(HitWithTime(h, F(0)), box.position, F(0))
    ELSE CollisionSweep(Null, box.position, F(1))
sweepAABBStill(aabb, box, delta) == stillSweep(box, intersectAABB(aabb, box))

\* sweepAABB with a delta that is not (0, 0), from the Hit of the segment on
movingSweep(box, delta, h, time) ==
    CollisionSweep(
        [h EXCEPT !.position =
            FPlus(h.position, FTimes(normalizePoint(delta), box.half))],
        FPlus(box.position, FScale(delta, time)),
        time)
sweepAABBMoving(aabb, box, delta) ==
    IF intersectSegment(aabb, box.position, delta, box.half) # Null
    THEN movingSweep(box, delta,
             intersectSegment(aabb, box.position, delta, box.half),
             clamp(FSub(intersectSegment(aabb, box.position, delta, box.half).time,
                        EPSILON(1)), F(0), F(1)))
    ELSE CollisionSweep(Null, FPlus(box.position, delta), F(1))

\* a variant of sweepAABB without the branch for delta = (0, 0)
sweepSegmentOnly(aabb, box, delta) == sweepAABBMoving(aabb, box, delta)

\* Collision.AABB.sweepAABB( aabb, box, delta )
sweepAABB(aabb, box, delta) ==
    IF delta.x = F(0) /\ delta.y = F(0)
    THEN sweepAABBStill(aabb, box, delta)
    ELSE sweepAABBMoving(aabb, box, delta)

\* the properties of the object Collision after the file has run
CollisionProperties == {"Hit", "Sweep", "AABB"}

\* how a call ends
SweepReturned(sweep) == [status |-> "returned", error |-> "none", sweep |-> sweep]
SweepThrew(error) == [status |-> "threw", error |-> error, sweep |-> Null]

\* the loop of sweepInto from index i on
RECURSIVE nearestFrom(_, _, _, _, _)
nearestFrom(aabb, staticColliders, delta, i, nearest) ==
    IF i > Len(staticColliders) THEN nearest
    ELSE nearestFrom(aabb, staticColliders, delta, i + 1,
             IF FLt(sweepAABB(staticColliders[i], aabb, delta).time, nearest.time)
             THEN sweepAABB(staticColliders[i], aabb, delta)
             ELSE nearest)

\* Collision.AABB.sweepInto( aabb, staticColliders, delta ); the loop calls
\* Collision.sweepAABB, a property read from the object Collision itself
sweepInto(aabb, staticColliders, delta) ==
    IF Len(staticColliders) > 0 /\ "sweepAABB" \notin CollisionProperties
    THEN SweepThrew("TypeError")
    ELSE SweepReturned(nearestFrom(aabb, staticColliders, delta, 1,
             CollisionSweep(Null, FPlus(aabb.position, delta), F(1))))

SweepReach == 4
MaxDelta == 4
\* the movements tried: up to MaxDelta on each axis, level or downwards,
\* with a length that is an integer
IsSquare(k) == ISqrt(k) * ISqrt(k) = k
SweepDeltas ==
    { p \in (-MaxDelta..MaxDelta) \X (0..MaxDelta) :
        IsSquare(p[1] * p[1] + p[2] * p[2]) }
\* the box that moves: half size 1, its centre at most SweepReach from the
\* origin on each axis
SweepBox(x, y) == AABB(FVec(x, y), FVec(1, 1))
\* the static boxes: a box of half size 2 around the origin, the one swept
\* against, and a box of half size 1 to its right
StaticBox(i) ==
    IF i = 1 THEN AABB(FVec(0, 0), FVec(2, 2)) ELSE AABB(FVec(3, 0), FVec(1, 1))
StaticColliders(k) == [i \in 1..k |-> StaticBox(i)]

SweepInit ==
    /\ swLast = Idle
    /\ HashIdle /\ QuadIdle /\ SatIdle /\ ColIdle /\ PolyIdle /\ PartIdle /\ HitIdle

\* a call: the box that moves, the boxes it is swept against, the movement
SweepRecord(op, mover, colliders, delta, outcome) ==
    /\ swLast' = [ outcome |-> outcome, op |-> op, delta |-> delta,
                   mover |-> mover, colliders |-> colliders ]
    /\ UNCHANGED <<shVars, qtVars, satVars, colVars, polyVars, ixLast, hitVars>>

\* Collision.AABB.sweepAABB( StaticBox(1), box, delta ), the box level with
\* the static box or above it
SweepAABB ==
    \E x \in -SweepReach..SweepReach, y \in -SweepReach..0, d \in SweepDeltas :
        SweepRecord("sweepAABB", SweepBox(x, y), StaticColliders(1), FVec(d[1], d[2]),
            SweepReturned(sweepAABB(StaticBox(1), SweepBox(x, y), FVec(d[1], d[2]))))

\* Collision.AABB.sweepInto( aabb, staticColliders, delta ), the box level
\* with the static boxes
SweepInto ==
    \E x \in -SweepReach..SweepReach, k \in 0..2, d \in SweepDeltas :
        SweepRecord("sweepInto", SweepBox(x, 0), StaticColliders(k), FVec(d[1], d[2]),
            sweepInto(SweepBox(x, 0), StaticColliders(k), FVec(d[1], d[2])))

SweepNext == SweepAABB \/ SweepInto

SpecSweep == SweepInit /\ [][SweepNext]_vars

\* the box at a position is clear of aabb: on some axis the centres are at
\* least the sum of the half sizes apart
ClearOf(aabb, position, half) ==
    \/ FGe(FAbs(FSub(position.x, aabb.position.x)), FAdd(half.x, aabb.half.x))
    \/ FGe(FAbs(FSub(position.y, aabb.position.y)), FAdd(half.y, aabb.half.y))

\* the time Number.EPSILON before t, kept between 0 and 1
JustBefore(t) ==
    IF FLe(FSub(t, EPSILON(1)), F(0)) THEN F(0)
    ELSE IF FGe(FSub(t, EPSILON(1)), F(1)) THEN F(1)
    ELSE FSub(t, EPSILON(1))

SweptAABB == swLast # Idle /\ swLast.op = "sweepAABB"
SweptInto == swLast # Idle /\ swLast.op = "sweepInto"

\* the sweeps of the mover against each collider of the last sweepInto
SweepsOfLast ==
    [ i \in 1..Len(swLast.colliders) |->
        sweepAABB(swLast.colliders[i], swLast.mover, swLast.delta) ]
HitsOfLast == { i \in 1..Len(swLast.colliders) : SweepsOfLast[i].hit # Null }

(* C18: sweepInto( aabb, staticColliders, delta ) returns the sweep with   *)
(* the smallest time among the colliders that are hit, the first of them   *)
(* on ties; when nothing is hit or the list is empty it returns hit =      *)
(* null, time = 1 and position = aabb.position + delta.                    *)
SweepIntoTakesNearest ==
    SweptInto =>
        /\ swLast.outcome.status = "returned"
        /\ IF HitsOfLast = {}
           THEN /\ swLast.outcome.sweep.hit = Null
                /\ swLast.outcome.sweep.time = F(1)
                /\ swLast.outcome.sweep.position
                       = FPlus(swLast.mover.position, swLast.delta)
           ELSE \E j \in HitsOfLast :
                    /\ swLast.outcome.sweep = SweepsOfLast[j]
                    /\ \A i \in HitsOfLast :
                           /\ FLe(SweepsOfLast[j].time, SweepsOfLast[i].time)
                           /\ i < j => FLt(SweepsOfLast[j].time, SweepsOfLast[i].time)

(* C19: sweepAABB( aabb, box, delta ) with a delta that is not (0, 0):     *)
(* when the padded segment test hits, sweep.time is hit.time minus         *)
(* Number.EPSILON clamped to [0, 1] and sweep.position is box.position +   *)
(* delta * sweep.time, where the box is clear of aabb unless it overlapped *)
(* aabb at its start; a box that overlaps at its start is hit and does not *)
(* move (sweep.position = box.position, hit.time = 0, hit.delta = (0, 0)); *)
(* when the test does not hit, sweep.hit is null, sweep.time is 1 and      *)
(* sweep.position is box.position + delta.                                 *)
SweepStopsBeforeHit ==
    (SweptAABB /\ swLast.delta # FVec(0, 0)) =>
        LET box == swLast.mover
            sweep == swLast.outcome.sweep
            overlapped == ~ClearOf(StaticBox(1), box.position, box.half)
        IN  /\ overlapped => sweep.hit # Null
            /\ sweep.hit # Null =>
                 /\ sweep.time = JustBefore(sweep.hit.time)
                 /\ sweep.position
                        = FPlus(box.position, FScale(swLast.delta, sweep.time))
                 /\ ~overlapped => ClearOf(StaticBox(1), sweep.position, box.half)
                 /\ overlapped =>
                      /\ sweep.position = box.position
                      /\ sweep.hit.time = F(0)
                      /\ sweep.hit.delta = FVec(0, 0)
            /\ sweep.hit = Null =>
                 /\ sweep.time = F(1)
                 /\ sweep.position = FPlus(box.position, swLast.delta)

(* C20: sweepAABB( aabb, box, delta ) with delta = (0, 0) is the static    *)
(* test: sweep.hit is the result of intersectAABB( aabb, box ),            *)
(* sweep.position is box.position, and sweep.time is 0 when there is a Hit *)
(* and 1 when there is none.                                               *)
StillSweepIsIntersectAABB ==
    (SweptAABB /\ swLast.delta = FVec(0, 0)) =>
        LET box == swLast.mover
            sweep == swLast.outcome.sweep
            h == intersectAABB(StaticBox(1), box)
        IN  /\ swLast.outcome.status = "returned"
            /\ sweep.position = box.position
            /\ IF h = Null
               THEN sweep.hit = Null /\ sweep.time = F(1)
               ELSE /\ sweep.hit # Null
                    /\ sweep.hit.collider = h.collider
                    /\ sweep.hit.position = h.position
                    /\ sweep.hit.delta = h.delta
                    /\ sweep.hit.normal = h.normal
                    /\ sweep.time = F(0)

\* a box that stands still inside the box it is tested against
StillSweepHit ==
    /\ SweptAABB
    /\ swLast.delta = FVec(0, 0)
    /\ swLast.outcome.sweep.hit # Null
    /\ ~ClearOf(StaticBox(1), swLast.mover.position, swLast.mover.half)

(***************************************************************************)
(* The static tests of Collision.AABB.  intersectPoint, intersectSegment   *)
(* and intersectAABB are pure functions: a behaviour draws the arguments   *)
(* of one call and then makes the call.  swLast holds the call: op, the    *)
(* box aabb, start (the start of the segment, the point, or the centre of  *)
(* the second box), delta, padding (the padding of the segment or the half *)
(* size of the second box) and result, Idle until the call is made.        *)
(***************************************************************************)
\* the Hit intersectPoint builds from the depth px, py on the two axes
pointHit(aabb, point, dx, dy, px, py) ==
    IF FLt(px, py)
    THEN [ CollisionHit(aabb) EXCEPT
             !.delta.x = FMul(px, FSign(dx)),
             !.normal.x = FSign(dx),
             !.position.x = FAdd(aabb.position.x, FMul(aabb.half.x, FSign(dx))),
             !.position.y = point.y ]
    ELSE [ CollisionHit(aabb) EXCEPT
             !.delta.y = FMul(py, FSign(dy)),
             !.normal.y = FSign(dy),
             !.position.x = point.x,
             !.position.y = FAdd(aabb.position.y, FMul(aabb.half.y, FSign(dy))) ]

\* intersectPoint once the depth on the two axes is known
pointTest(aabb, point, dx, dy, px, py) ==
    IF FLe(px, F(0)) THEN Null
    ELSE IF FLe(py, F(0)) THEN Null
    ELSE pointHit(aabb, point, dx, dy, px, py)

\* Collision.AABB.intersectPoint( aabb, point )
intersectPoint(aabb, point) ==
    pointTest(aabb, point,
        FSub(point.x, aabb.position.x),
        FSub(point.y, aabb.position.y),
        FSub(aabb.half.x, FAbs(FSub(point.x, aabb.position.x))),
        FSub(aabb.half.y, FAbs(FSub(point.y, aabb.position.y))))

\* the boxes tested: centred at the origin, half size (w, 2)
MaxWidth == 3
TestBox(w) == AABB(FVec(0, 0), FVec(w, 2))
TestBoxes == { TestBox(w) : w \in 2..MaxWidth }
\* points and centres: integers up to SweepReach from the origin
TestPoints == { FVec(x, y) : x \in -SweepReach..SweepReach, y \in -SweepReach..SweepReach }
\* movements of a segment: integers up to MaxDelta on each axis
TestDeltas == { FVec(x, y) : x \in -MaxDelta..MaxDelta, y \in -MaxDelta..MaxDelta }
\* paddings of a segment: none (the default {}) and one on each axis
TestPaddings == { <<>>, FVec(1, 1) }

IntersectCall(op, aabb, start, delta, padding) ==
    [ result |-> Idle, op |-> op, delta |-> delta, padding |-> padding,
      start |-> start, aabb |-> aabb ]

IntersectInit ==
    /\ swLast \in
         { IntersectCall("intersectPoint", aabb, point, FVec(0, 0), <<>>) :
             aabb \in TestBoxes, point \in TestPoints }
         \cup
         { IntersectCall("intersectAABB", aabb, position, FVec(0, 0), FVec(1, 1)) :
             aabb \in TestBoxes, position \in TestPoints }
         \cup
         { IntersectCall("intersectSegment", TestBox(2), c[1], c[2], c[3]) :
             c \in TestPoints \X TestDeltas \X TestPaddings }
    /\ HashIdle /\ QuadIdle /\ SatIdle /\ ColIdle /\ PolyIdle /\ PartIdle /\ HitIdle

IntersectPending(op) ==
    /\ swLast.op = op
    /\ swLast.result = Idle

IntersectResult(result) ==
    /\ swLast' = [swLast EXCEPT !.result = result]
    /\ UNCHANGED <<shVars, qtVars, satVars, colVars, polyVars, ixLast, hitVars>>

\* Collision.AABB.intersectPoint( aabb, point )
IntersectPoint ==
    /\ IntersectPending("intersectPoint")
    /\ IntersectResult(intersectPoint(swLast.aabb, swLast.start))

\* Collision.AABB.intersectAABB( aabb, box )
IntersectAABB ==
    /\ IntersectPending("intersectAABB")
    /\ IntersectResult(intersectAABB(swLast.aabb, AABB(swLast.start, swLast.padding)))

\* Collision.AABB.intersectSegment( aabb, start, delta, padding )
IntersectSegment ==
    /\ IntersectPending("intersectSegment")
    /\ IntersectResult(intersectSegment(swLast.aabb, swLast.start, swLast.delta,
                                        swLast.padding))

IntersectNext == IntersectPoint \/ IntersectAABB \/ IntersectSegment

SpecIntersect == IntersectInit /\ [][IntersectNext]_vars

\* the last call has been made and was op
Intersected(op) == swLast # Idle /\ swLast.op = op /\ swLast.result # Idle

\* a time between 0 and 1
UnitTime(t) == FLe(F(0), t) /\ FLe(t, F(1))
\* a unit vector along one axis
UnitAxis(v) == v \in { FVec(1, 0), FVec(-1, 0), FVec(0, 1), FVec(0, -1) }

\* half size plus padding of the last call on each axis
PaddedHalf ==
    [ x |-> FAdd(swLast.aabb.half.x, paddingOf(swLast.padding, "x")),
      y |-> FAdd(swLast.aabb.half.y, paddingOf(swLast.padding, "y")) ]
\* the distance of the start from the centre of the box on each axis
FromCentre ==
    [ x |-> FAbs(FSub(swLast.start.x, swLast.aabb.position.x)),
      y |-> FAbs(FSub(swLast.start.y, swLast.aabb.position.y)) ]
\* the start lies strictly inside the padded box
StartsInside == FLt(FromCentre.x, PaddedHalf.x) /\ FLt(FromCentre.y, PaddedHalf.y)

\* the time at which a segment that moves on an axis enters the padded
\* extent of the box on that axis: (near edge - start) / delta
EntryTime(axis) ==
    FMul(FSub(FSub(swLast.aabb.position[axis],
                   FMul(FSign(swLast.delta[axis]), PaddedHalf[axis])),
              swLast.start[axis]),
         FInv(swLast.delta[axis]))
\* the axis the segment enters last, y on ties
LaterAxis ==
    IF swLast.delta.x = F(0) THEN "y"
    ELSE IF swLast.delta.y = F(0) THEN "x"
    ELSE IF FGt(EntryTime("x"), EntryTime("y")) THEN "x" ELSE "y"
OtherAxis(axis) == IF axis = "x" THEN "y" ELSE "x"

\* two results are the same but for the box they name as collider
SameButCollider(h, g) ==
    IF h = Null \/ g = Null THEN h = g
    ELSE /\ h.time = g.time
         /\ h.position = g.position
         /\ h.delta = g.delta
         /\ h.normal = g.normal

(* C21: a Hit returned by intersectSegment( aabb, start, delta, padding )  *)
(* has 0 <= time <= 1, delta = delta * time, position = start + hit.delta, *)
(* collider = aabb, and as normal the unit vector on the axis entered      *)
(* last, against the movement on that axis; a segment that starts inside   *)
(* the box has time 0 and a zero hit.delta; and the result with padding p  *)
(* is the result for a box of half size half + p without padding.          *)
SegmentHitIsEntry ==
    Intersected("intersectSegment") =>
        /\ SameButCollider(swLast.result,
               intersectSegment(AABB(swLast.aabb.position, PaddedHalf),
                                swLast.start, swLast.delta, <<>>))
        /\ swLast.result # Null =>
             /\ UnitTime(swLast.result.time)
             /\ swLast.result.delta = FScale(swLast.delta, swLast.result.time)
             /\ swLast.result.position = FPlus(swLast.start, swLast.result.delta)
             /\ swLast.result.collider = swLast.aabb
             /\ UnitAxis(swLast.result.normal)
             /\ swLast.delta # FVec(0, 0) =>
                  /\ swLast.result.normal[LaterAxis] = FNeg(FSign(swLast.delta[LaterAxis]))
             /\ StartsInside =>
                  /\ swLast.result.time = F(0)
                  /\ swLast.result.delta = FVec(0, 0)

\* the segment moves on exactly one axis
ZeroAxes == { axis \in {"x", "y"} : swLast.delta[axis] = F(0) }

(* C22: for a segment whose delta is zero on one axis intersectSegment     *)
(* never returns a Hit with a time that is NaN or outside [0, 1]; it       *)
(* returns null when the start is not inside the padded extent of the box  *)
(* on that axis, and otherwise what the other axis decides: a Hit exactly  *)
(* when the segment enters the extent on the other axis before time 1 and  *)
(* leaves it after time 0, at the entry time clamped to [0, 1].            *)
ZeroDeltaAxisIsSafe ==
    (Intersected("intersectSegment") /\ Cardinality(ZeroAxes) = 1) =>
        LET zero == CHOOSE axis \in ZeroAxes : TRUE
            other == OtherAxis(zero)
            entry == EntryTime(other)
            exit == FMul(FSub(FAdd(swLast.aabb.position[other],
                                   FMul(FSign(swLast.delta[other]), PaddedHalf[other])),
                              swLast.start[other]),
                         FInv(swLast.delta[other]))
        IN  /\ swLast.result # Null => UnitTime(swLast.result.time)
            /\ ~FLt(FromCentre[zero], PaddedHalf[zero]) => swLast.result = Null
            /\ FLt(FromCentre[zero], PaddedHalf[zero]) =>
                 IF FLt(entry, F(1)) /\ FGt(exit, F(0))
                 THEN /\ swLast.result # Null
                      /\ swLast.result.time = (IF FLt(entry, F(0)) THEN F(0) ELSE entry)
                      /\ swLast.result.normal[other] = FNeg(FSign(swLast.delta[other]))
                 ELSE swLast.result = Null

\* the segment runs along one axis and ends on the face of the box that is
\* turned towards its start, having started outside
EndsOnFace(axis) ==
    /\ swLast.padding = <<>>
    /\ swLast.delta[axis] # F(0)
    /\ swLast.delta[OtherAxis(axis)] = F(0)
    /\ FAdd(swLast.start[axis], swLast.delta[axis])
         = FSub(swLast.aabb.position[axis],
                FMul(FSign(swLast.delta[axis]), swLast.aabb.half[axis]))
    /\ FLe(FromCentre[OtherAxis(axis)], swLast.aabb.half[OtherAxis(axis)])
\* the segment runs along one axis and starts on a face of the box, moving
\* away from the box
LeavesFace(axis) ==
    /\ swLast.padding = <<>>
    /\ swLast.delta[axis] # F(0)
    /\ swLast.delta[OtherAxis(axis)] = F(0)
    /\ swLast.start[axis]
         = FAdd(swLast.aabb.position[axis],
                FMul(FSign(swLast.delta[axis]), swLast.aabb.half[axis]))
    /\ FLe(FromCentre[OtherAxis(axis)], swLast.aabb.half[OtherAxis(axis)])

(* C23: an axis-aligned segment that reaches a face of the box only at its *)
(* end point is not a hit, and neither is the reversed segment, which      *)
(* starts on that face and moves away.                                     *)
ContactIsNoHitBothWays ==
    Intersected("intersectSegment") =>
        \A axis \in {"x", "y"} :
            (EndsOnFace(axis) \/ LeavesFace(axis)) => swLast.result = Null

\* how deep the start lies inside the padded box on an axis
Penetration(axis) == FSub(PaddedHalf[axis], FromCentre[axis])

\* h pushes out through the nearest face: on an axis of least penetration
\* its normal is the unit vector from the centre of aabb towards the start,
\* its delta the penetration along the normal, and its position the start
\* moved onto that face of aabb
NearestFaceHit(h) ==
    /\ UnitAxis(h.normal)
    /\ \E axis \in {"x", "y"} :
         /\ FLe(Penetration(axis), Penetration(OtherAxis(axis)))
         /\ h.normal[OtherAxis(axis)] = F(0)
         /\ swLast.start[axis] # swLast.aabb.position[axis] =>
              h.normal[axis] = FSign(FSub(swLast.start[axis], swLast.aabb.position[axis]))
         /\ h.delta[axis] = FMul(Penetration(axis), h.normal[axis])
         /\ h.delta[OtherAxis(axis)] = F(0)
         /\ h.position[axis] = FAdd(swLast.aabb.position[axis],
                                    FMul(swLast.aabb.half[axis], h.normal[axis]))
         /\ h.position[OtherAxis(axis)] = swLast.start[OtherAxis(axis)]

(* C24: intersectAABB( aabb, box ) returns null when the boxes are apart   *)
(* or their edges are flush and a Hit otherwise; the box moved by          *)
(* hit.delta is clear of aabb, hit.normal is the unit normal of the        *)
(* nearest face of aabb and hit.delta lies along the axis of least         *)
(* penetration.                                                            *)
OverlapHitSeparates ==
    Intersected("intersectAABB") =>
        /\ swLast.result = Null <=> ~StartsInside
        /\ swLast.result # Null =>
             /\ NearestFaceHit(swLast.result)
             /\ ClearOf(swLast.aabb, FPlus(swLast.start, swLast.result.delta),
                        swLast.padding)

(* C25: intersectPoint( aabb, point ) returns null exactly when the point  *)
(* is not strictly inside the box; otherwise the Hit has the unit outward  *)
(* normal of the nearest face, as position the point projected onto that   *)
(* face, and as delta the penetration depth times the normal.              *)
PointHitIsNearestFace ==
    Intersected("intersectPoint") =>
        /\ swLast.result = Null <=> ~StartsInside
        /\ swLast.result # Null => NearestFaceHit(swLast.result)

(***************************************************************************)
(* The shape of the quadtree: its nodes, the quadrants of a field and the  *)
(* nodes that hold a key.                                                  *)
(***************************************************************************)
\* the nodes of the tree under node n, n included
RECURSIVE QuadNodes(_)
QuadNodes(n) == {n} \cup UNION { QuadNodes(n.nodes[i]) : i \in 1..Len(n.nodes) }

\* child is over quadrant index (0 top-right, 1 top-left, 2 bottom-left,
\* 3 bottom-right) of field, sizes compared doubled
IsQuadrant(field, index, child) ==
    /\ 2 * child.width = field.width
    /\ 2 * child.height = field.height
    /\ 2 * child.x = 2 * field.x + (IF index \in {0, 3} THEN field.width ELSE 0)
    /\ 2 * child.y = 2 * field.y + (IF index \in {2, 3} THEN field.height ELSE 0)

\* node n has the children the split is said to make
SplitIsQuadrants(n) ==
    /\ Len(n.nodes) = 4
    /\ n.level < n.depth
    /\ \A index \in 0..3 :
          /\ n.nodes[index + 1].level = n.level + 1
          /\ n.nodes[index + 1].threshold = n.threshold
          /\ n.nodes[index + 1].depth = n.depth
          /\ IsQuadrant(n.field, index, n.nodes[index + 1].field)

(* C26: every node has either no children or four, made by a split: in the *)
(* order top-right, top-left, bottom-left, bottom-right, each at level + 1 *)
(* over one quadrant of the parent's field, the parent's level below       *)
(* depth; no node has a level greater than depth.                          *)
SplitMakesFourQuadrants ==
    \A n \in QuadNodes(qtRoot) :
        /\ n.level <= n.depth
        /\ n.nodes # <<>> => SplitIsQuadrants(n)

\* the number of nodes under n, n included, whose own map holds key
RECURSIVE QuadHolds(_, _)
QuadHolds(n, key) ==
    (IF key \in DOMAIN n.objects THEN 1 ELSE 0)
    + (IF n.nodes = <<>> THEN 0
       ELSE QuadHolds(n.nodes[1], key) + QuadHolds(n.nodes[2], key)
            + QuadHolds(n.nodes[3], key) + QuadHolds(n.nodes[4], key))

\* node n, reached by the added pairs of log, keeps the regions that fit no
\* quadrant and has handed every other one to the child of its quadrant
RECURSIVE QuadSorted(_, _)
QuadSorted(n, log) ==
    n.nodes # <<>> =>
        /\ \A key \in DOMAIN n.objects : getIndex(n.field, n.objects[key]) = -1
        /\ \A p \in log :
              getIndex(n.field, p[2]) # -1 =>
                  /\ p[1] \notin DOMAIN n.objects
                  /\ QuadHolds(n.nodes[getIndex(n.field, p[2]) + 1], p[1]) = 1
        /\ \A index \in 0..3 :
              QuadSorted(n.nodes[index + 1], { p \in log : getIndex(n.field, p[2]) = index })

\* the added pairs that add() of the root did not turn away
QuadTaken == { p \in qtLog : isInField(qtRoot.field, p[2]) }

(* C27: in every node that has children, each object of the node's own map *)
(* fits no single quadrant, and every region that came to the node and     *)
(* fits one quadrant is held under that child and not in the node itself.  *)
OwnObjectsStraddle == QuadSorted(qtRoot, QuadTaken)

(* C28: with distinct keys since the last clear(), every key whose region  *)
(* overlapped the root field is in the own map of exactly one node, and    *)
(* find returns no key twice.                                              *)
EveryKeyHeldOnce ==
    /\ \A p \in QuadTaken : QuadHolds(qtRoot, p[1]) = 1
    /\ qtFound # Idle => Cardinality(RangeOf(qtFound.keys)) = Len(qtFound.keys)

(* C29: when a test of two polygons returns false, every field of the      *)
(* Response (a, b, overlap, overlapN, overlapV, aInB, bInA) has the value  *)
(* it had before the call.                                                 *)
PolygonMissLeavesResponse ==
    (satLast # Idle /\ ~satLast.result) => satLast.after = satLast.before

(***************************************************************************)
(* Polygon against polygon in both orders: a caller that tests a pair with *)
(* a new Response and then the swapped pair with another new Response.     *)
(***************************************************************************)
SwapInit ==
    /\ satA \in SatFirst
    /\ satB \in SatSecond
    /\ satResponse = NewResponse
    /\ satFresh = TRUE
    /\ satMoved = FALSE
    /\ satLast = Idle
    /\ satPrev = Idle
    /\ satTests = 0
    /\ HashIdle /\ QuadIdle /\ ColIdle /\ ExtIdle

\* collision.test( a, b, r1 ), r1 a new Response
SwapTest ==
    /\ satTests = 0
    /\ SatRecord(testPolygonPolygon(satA, satB, satResponse, TRUE))
    /\ satPrev' = satLast
    /\ satFresh' = FALSE
    /\ satTests' = 1
    /\ UNCHANGED <<satA, satB, satMoved, shVars, qtVars, colVars, extVars>>

\* what collision.test( b, a, r2 ) leaves, r2 a new Response
SwapRecord(r) ==
    /\ satResponse' = r.response
    /\ satLast' = [ a |-> satB, b |-> satA, before |-> NewResponse,
                    after |-> r.response, result |-> r.result,
                    fresh |-> TRUE, moved |-> FALSE ]

\* collision.test( b, a, r2 )
SwapTestBack ==
    /\ satTests = 1
    /\ SwapRecord(testPolygonPolygon(satB, satA, NewResponse, TRUE))
    /\ satPrev' = satLast
    /\ satTests' = 2
    /\ UNCHANGED <<satA, satB, satFresh, satMoved, shVars, qtVars, colVars, extVars>>

SwapNext == SwapTest \/ SwapTestBack

SpecSwap == SwapInit /\ [][SwapNext]_vars

\* the last two tests were of one pair in both orders, each with a cleared
\* Response
TestedBothWays ==
    /\ satPrev # Idle /\ satLast # Idle
    /\ satPrev.fresh /\ satLast.fresh
    /\ satLast.a = satPrev.b /\ satLast.b = satPrev.a

(* C30: the polygon test of a pair and of the swapped pair, each with a    *)
(* cleared Response, return the same boolean, and when true the same       *)
(* overlap, with aInB of the one being bInA of the other.                  *)
SwappedTestAgrees ==
    TestedBothWays =>
        /\ satLast.result = satPrev.result
        /\ satLast.result =>
              /\ satLast.after.overlap = satPrev.after.overlap
              /\ satLast.after.bInA = satPrev.after.aInB
              /\ satLast.after.aInB = satPrev.after.bInA

====
